---- MODULE Spec2Model ----
(***************************************************************************)
(* A model of affilinker's slug-assignment and content-rewrite engine      *)
(* (Transformer), the Amazon network plugin, the scanner, the reporter,    *)
(* the two storage adapters and the transform and sync commands.           *)
(*                                                                         *)
(* JavaScript strings are TLA+ strings; a character is a string of length  *)
(* one.  Every string function of the source is computed character by      *)
(* character, the way the source (or the library it calls) computes it.    *)
(***************************************************************************)
EXTENDS Integers, Sequences, FiniteSets, TLC

(***************************************************************************)
(* String primitives: the methods of String.prototype the source calls     *)
(***************************************************************************)

CharAt(s, i) == SubSeq(s, i, i)

CharsOf(s) == {CharAt(s, i) : i \in 1..Len(s)}

SetMin(S) == CHOOSE x \in S : \A y \in S : x <= y

SetMax(S) == CHOOSE x \in S : \A y \in S : y <= x

\* s.slice(from) for a 1-based position `from`
Rest(s, from) == SubSeq(s, from, Len(s))

\* the literal p occurs in s at position i
MatchAt(s, p, i) == i >= 1 /\ i + Len(p) - 1 <= Len(s) /\ SubSeq(s, i, i + Len(p) - 1) = p

startsWith(s, p) == MatchAt(s, p, 1)

endsWith(s, p) == Len(p) <= Len(s) /\ MatchAt(s, p, Len(s) - Len(p) + 1)

\* 1-based index of the first occurrence of p in s at or after `from`, 0 when none
IndexFrom(s, p, from) ==
  LET I == {i \in from..(Len(s) - Len(p) + 1) : MatchAt(s, p, i)}
  IN  IF I = {} THEN 0 ELSE SetMin(I)

IndexOf(s, p) == IndexFrom(s, p, 1)

includes(s, p) == IndexOf(s, p) # 0

\* s.replace(p, r) with a string pattern: the first occurrence only
ReplaceFirst(s, p, r) ==
  LET i == IndexOf(s, p)
  IN  IF i = 0 THEN s ELSE SubSeq(s, 1, i - 1) \o r \o Rest(s, i + Len(p))

\* index of the first character of s, at or after `from`, that is in the set cs;
\* Len(s) + 1 when none
FirstOf(s, cs, from) ==
  LET I == {i \in from..Len(s) : CharAt(s, i) \in cs}
  IN  IF I = {} THEN Len(s) + 1 ELSE SetMin(I)

UpperLetters == "ABCDEFGHIJKLMNOPQRSTUVWXYZ"

LowerLetters == "abcdefghijklmnopqrstuvwxyz"

Digits == "0123456789"

AlnumChars == CharsOf(UpperLetters) \cup CharsOf(LowerLetters) \cup CharsOf(Digits)

\* JavaScript's \s, for the characters the model's texts use
SpaceChars == {" ", "\n"}

\* the lower-case letter of each upper-case letter
LowerOf ==
  [A |-> "a", B |-> "b", C |-> "c", D |-> "d", E |-> "e", F |-> "f", G |-> "g", H |-> "h", I |-> "i",
   J |-> "j", K |-> "k", L |-> "l", M |-> "m", N |-> "n", O |-> "o", P |-> "p", Q |-> "q", R |-> "r",
   S |-> "s", T |-> "t", U |-> "u", V |-> "v", W |-> "w", X |-> "x", Y |-> "y", Z |-> "z"]

LowerChar(c) == IF c \in DOMAIN LowerOf THEN LowerOf[c] ELSE c

\* (the character-wise maps split the string in halves, which keeps the depth of
\* the recursion at the logarithm of the length)
RECURSIVE toLowerCase(_)
toLowerCase(s) ==
  IF Len(s) <= 1 THEN LowerChar(s)
  ELSE toLowerCase(SubSeq(s, 1, Len(s) \div 2)) \o toLowerCase(Rest(s, Len(s) \div 2 + 1))

\* keep the characters of s that are in cs
RECURSIVE KeepChars(_, _)
KeepChars(s, cs) ==
  IF Len(s) <= 1 THEN (IF s \in cs THEN s ELSE "")
  ELSE KeepChars(SubSeq(s, 1, Len(s) \div 2), cs) \o KeepChars(Rest(s, Len(s) \div 2 + 1), cs)

RECURSIVE TrimLeft(_)
TrimLeft(s) == IF s # "" /\ Head(s) \in SpaceChars THEN TrimLeft(Tail(s)) ELSE s

RECURSIVE TrimRight(_)
TrimRight(s) ==
  IF s # "" /\ CharAt(s, Len(s)) \in SpaceChars THEN TrimRight(SubSeq(s, 1, Len(s) - 1)) ELSE s

trim(s) == TrimRight(TrimLeft(s))

\* s.replace(/-+$/, '')
RECURSIVE StripTrailingDashes(_)
StripTrailingDashes(s) ==
  IF s # "" /\ CharAt(s, Len(s)) = "-" THEN StripTrailingDashes(SubSeq(s, 1, Len(s) - 1)) ELSE s

\* s.slice(0, n)
SliceTo(s, n) == SubSeq(s, 1, IF Len(s) < n THEN Len(s) ELSE n)

\* Number.prototype.toString(36)
RECURSIVE toString36(_)
toString36(n) ==
  LET d == CharAt(Digits \o LowerLetters, (n % 36) + 1)
  IN  IF n < 36 THEN d ELSE toString36(n \div 36) \o d

(***************************************************************************)
(* slugify(text, {lower: true, strict: true, trim: true}), the npm package *)
(* the source imports: every character equal to the replacement '-'        *)
(* becomes a space, strict mode drops what is not [A-Za-z0-9\s], the       *)
(* result is trimmed, each run of white space becomes one '-', and the     *)
(* whole is lowercased.  (The package's table of symbol names, '&' ->      *)
(* 'and' and the like, is not modelled: no text of the model has such a    *)
(* symbol.)                                                                *)
(***************************************************************************)

RECURSIVE DashesToSpaces(_)
DashesToSpaces(s) ==
  IF Len(s) <= 1 THEN (IF s = "-" THEN " " ELSE s)
  ELSE DashesToSpaces(SubSeq(s, 1, Len(s) \div 2)) \o DashesToSpaces(Rest(s, Len(s) \div 2 + 1))

\* s.replace(/\s+/g, '-')
RECURSIVE SpaceRunsToDash(_)
SpaceRunsToDash(s) ==
  IF s = "" THEN ""
  ELSE IF Head(s) \in SpaceChars
       THEN "-" \o SpaceRunsToDash(TrimLeft(s))
       ELSE Head(s) \o SpaceRunsToDash(Tail(s))

slugify(text) ==
  toLowerCase(SpaceRunsToDash(trim(KeepChars(DashesToSpaces(text), AlnumChars \cup SpaceChars))))

\* the longest slug slice(0, 50) lets through
MaxSlugLen == 50

(***************************************************************************)
(* new URL(url), for the URL shapes of the model: a scheme, then for       *)
(* http(s) any number of slashes and a non-empty host, for another scheme  *)
(* an optional //host; then the path up to '?' or '#'.  ok = FALSE is the  *)
(* TypeError the constructor throws.                                       *)
(***************************************************************************)

SchemeChars == AlnumChars \cup {"+", "-", "."}

SpecialSchemes == {"http", "https"}

\* characters a host may not hold
ForbiddenHostChars == {" ", "<", ">", "[", "]", "^", "|", "%", "\\", "\n"}

RECURSIVE SkipSlashes(_)
SkipSlashes(s) == IF s # "" /\ Head(s) \in {"/", "\\"} THEN SkipSlashes(Tail(s)) ELSE s

\* the part of the authority that is the host name: without the port
HostOfAuthority(a) == SubSeq(a, 1, FirstOf(a, {":"}, 1) - 1)

ParseFail ==
  [ok |-> FALSE, protocol |-> "", host |-> "", hostname |-> "", pathname |-> "",
   search |-> "", hash |-> ""]

\* the record of a parsed URL whose text after the scheme's colon (and, with an
\* authority, after the slashes) is `r`
ParseAfterScheme(scheme, r, hasAuthority) ==
  LET endAuth == IF hasAuthority THEN FirstOf(r, {"/", "?", "#"}, 1) ELSE 1
      auth    == SubSeq(r, 1, endAuth - 1)
      host    == IF scheme \in SpecialSchemes
                 THEN toLowerCase(HostOfAuthority(auth)) ELSE HostOfAuthority(auth)
      endPath == FirstOf(r, {"?", "#"}, endAuth)
      path    == SubSeq(r, endAuth, endPath - 1)
      endQ    == FirstOf(r, {"#"}, endPath)
      query   == SubSeq(r, endPath, endQ - 1)
      frag    == Rest(r, endQ)
  IN  IF (scheme \in SpecialSchemes /\ host = "") \/ CharsOf(host) \cap ForbiddenHostChars # {}
      THEN ParseFail
      ELSE [ok       |-> TRUE,
            protocol |-> scheme \o ":",
            host     |-> IF scheme \in SpecialSchemes THEN toLowerCase(auth) ELSE auth,
            hostname |-> host,
            pathname |-> IF path = "" /\ scheme \in SpecialSchemes THEN "/" ELSE path,
            search   |-> IF query = "?" THEN "" ELSE query,
            hash     |-> IF frag = "#" THEN "" ELSE frag]

ParseURL(url) ==
  LET colon  == IndexOf(url, ":")
      scheme == toLowerCase(SubSeq(url, 1, colon - 1))
      after  == Rest(url, colon + 1)
  IN  IF colon <= 1
         \/ Head(url) \notin (CharsOf(UpperLetters) \cup CharsOf(LowerLetters))
         \/ ~(CharsOf(scheme) \subseteq SchemeChars)
      THEN ParseFail
      ELSE ParseAfterScheme(scheme,
                            IF scheme \in SpecialSchemes THEN SkipSlashes(after)
                            ELSE IF startsWith(after, "//") THEN Rest(after, 3) ELSE after,
                            scheme \in SpecialSchemes \/ startsWith(after, "//"))

\* url.hostname.replace('www.', '').split('.')[0]
HostLabel(hostname) ==
  LET h == ReplaceFirst(hostname, "www.", "")
  IN  SubSeq(h, 1, FirstOf(h, {"."}, 1) - 1)

\* url.pathname.split('/').filter(Boolean)[0] || ''
FirstPathSegment(pathname) ==
  LET p == SkipSlashes(pathname)
  IN  SubSeq(p, 1, FirstOf(p, {"/"}, 1) - 1)

\* String(n) for a natural number n
RECURSIVE ToDecimal(_)
ToDecimal(n) ==
  LET d == CharAt(Digits, (n % 10) + 1)
  IN  IF n < 10 THEN d ELSE ToDecimal(n \div 10) \o d

\* s.split(sep) for a one-character separator: the sequence of the pieces
RECURSIVE Split(_, _)
Split(s, sep) ==
  LET i == IndexOf(s, sep)
  IN  IF i = 0 THEN <<s>> ELSE <<SubSeq(s, 1, i - 1)>> \o Split(Rest(s, i + 1), sep)

(***************************************************************************)
(* URLSearchParams: the list of [name, value] pairs of a query string, and *)
(* its serialisation back (name=value joined by '&').                      *)
(***************************************************************************)

ParamOf(piece) ==
  LET i == IndexOf(piece, "=")
  IN  IF i = 0 THEN [name |-> piece, value |-> ""]
      ELSE [name |-> SubSeq(piece, 1, i - 1), value |-> Rest(piece, i + 1)]

SearchParams(search) ==
  LET q      == IF startsWith(search, "?") THEN Rest(search, 2) ELSE search
      pieces == SelectSeq(Split(q, "&"), LAMBDA p : p # "")
  IN  [i \in 1..Len(pieces) |-> ParamOf(pieces[i])]

searchParams_has(params, name) == \E i \in 1..Len(params) : params[i].name = name

searchParams_delete(params, name) == SelectSeq(params, LAMBDA p : p.name # name)

\* set(name, value): the first pair of that name takes the value and the others
\* go; without such a pair, one is appended
searchParams_set(params, name, value) ==
  IF searchParams_has(params, name)
  THEN LET first == SetMin({i \in 1..Len(params) : params[i].name = name})
           kept  == {i \in 1..Len(params) : params[i].name # name \/ i = first}
           RECURSIVE Take(_)
           Take(i) == IF i > Len(params) THEN <<>>
                      ELSE (IF i \in kept
                            THEN <<IF i = first THEN [name |-> name, value |-> value]
                                   ELSE params[i]>>
                            ELSE <<>>) \o Take(i + 1)
       IN  Take(1)
  ELSE Append(params, [name |-> name, value |-> value])

RECURSIVE JoinParams(_)
JoinParams(params) ==
  IF params = <<>> THEN ""
  ELSE Head(params).name \o "=" \o Head(params).value
       \o (IF Len(params) > 1 THEN "&" ELSE "") \o JoinParams(Tail(params))

\* URL.toString() of a parsed http(s) URL whose query pairs are `params`
SerializeURL(u, params) ==
  u.protocol \o "//" \o u.host \o u.pathname
  \o (IF params = <<>> THEN "" ELSE "?" \o JoinParams(params)) \o u.hash

(***************************************************************************)
(* AmazonPlugin                                                            *)
(***************************************************************************)

AMAZON_DOMAINS ==
  << "amazon.com", "amazon.co.uk", "amazon.de", "amazon.fr", "amazon.it", "amazon.es",
     "amazon.ca", "amazon.com.au", "amazon.co.jp", "amazon.in", "amzn.to", "amzn.com" >>

\* the length of an ASIN, the {10} of AMAZON_PATTERNS
AsinLen == 10

\* the n characters of s from position i on exist and are all of [A-Za-z0-9]
AlnumRunAt(s, i, n) == i + n - 1 <= Len(s) /\ CharsOf(SubSeq(s, i, i + n - 1)) \subseteq AlnumChars

\* the prefixes (?:dp|gp\/product), between slashes, in the order the pattern tries them
ProductPrefixes(dpFirst) ==
  IF dpFirst THEN << "/dp/", "/gp/product/" >> ELSE << "/gp/product/", "/dp/" >>

\* AMAZON_PATTERNS[0] and [2]: the capture of the leftmost match of
\* /\/(?:dp|gp\/product)\/([A-Z0-9]{10})<suffix>/i in url, "" without a match
ProductPattern(url, dpFirst, suffix) ==
  LET Ok(low, pre, i, k) == /\ MatchAt(low, pre[k], i)
                            /\ AlnumRunAt(url, i + Len(pre[k]), AsinLen)
                            /\ MatchAt(low, suffix, i + Len(pre[k]) + AsinLen)
      Group(p, i)        == SubSeq(url, i + Len(p), i + Len(p) + AsinLen - 1)
      Leftmost(low, pre, starts) ==
        IF starts = {} THEN ""
        ELSE Group(IF Ok(low, pre, SetMin(starts), 1) THEN pre[1] ELSE pre[2], SetMin(starts))
      Exec(low, pre) ==
        Leftmost(low, pre, {i \in 1..Len(url) : \E k \in 1..2 : Ok(low, pre, i, k)})
  IN  Exec(toLowerCase(url), ProductPrefixes(dpFirst))

\* AMAZON_PATTERNS[1]: the capture of /amzn\.to\/([A-Za-z0-9]+)/, "" without a match
ShortPattern(url) ==
  LET pre    == "amzn.to/"
      starts == {i \in 1..Len(url) : MatchAt(url, pre, i) /\ AlnumRunAt(url, i + Len(pre), 1)}
  IN  IF starts = {} THEN ""
      ELSE LET from == SetMin(starts) + Len(pre)
               stop == SetMin({j \in from..(Len(url) + 1) :
                                 j = Len(url) + 1 \/ CharAt(url, j) \notin AlnumChars})
           IN  SubSeq(url, from, stop - 1)

AMAZON_PATTERNS(url) ==
  << ProductPattern(url, TRUE, ""), ShortPattern(url), ProductPattern(url, FALSE, "/ref=") >>

\* null is ""
extractProductId(url) ==
  LET FirstMatch(m, hits) ==
        IF hits = {} THEN ""
        ELSE IF includes(url, "amzn.to") THEN "" ELSE m[SetMin(hits)]
      Matches(m) == FirstMatch(m, {k \in 1..Len(m) : m[k] # ""})
  IN  Matches(AMAZON_PATTERNS(url))

isAmazonDomain(hostname) ==
  \E k \in 1..Len(AMAZON_DOMAINS) :
    hostname = AMAZON_DOMAINS[k] \/ endsWith(hostname, "." \o AMAZON_DOMAINS[k])

AmazonPlugin_detect(url) ==
  LET hasTag(parsed) == \/ searchParams_has(SearchParams(parsed.search), "tag")
                        \/ includes(url, "tag=")
                        \/ includes(url, "linkCode=")
                        \/ includes(url, "creative=")
                        \/ includes(url, "camp=")
      isProductLink  == \E k \in 1..3 : AMAZON_PATTERNS(url)[k] # ""
      Detect(parsed) ==
        /\ parsed.ok
        /\ isAmazonDomain(ReplaceFirst(toLowerCase(parsed.hostname), "www.", ""))
        /\ (hasTag(parsed) \/ isProductLink)
  IN  Detect(ParseURL(url))

extractDomain(url) ==
  LET Found(hostname) ==
        {k \in 1..Len(AMAZON_DOMAINS) :
           hostname = AMAZON_DOMAINS[k] \/ endsWith(hostname, "." \o AMAZON_DOMAINS[k])}
      Domain(ok, found) == IF ok /\ found # {} THEN AMAZON_DOMAINS[SetMin(found)] ELSE "amazon.com"
      Of(parsed) ==
        Domain(parsed.ok, Found(ReplaceFirst(toLowerCase(parsed.hostname), "www.", "")))
  IN  Of(ParseURL(url))

\* the affiliate parameters updateTag deletes, in its order
OldAffiliateParams == << "tag", "linkCode", "creative", "creativeASIN", "camp", "ref" >>

RECURSIVE DeleteAll(_, _)
DeleteAll(params, names) ==
  IF names = <<>> THEN params
  ELSE DeleteAll(searchParams_delete(params, Head(names)), Tail(names))

\* url.replace(/tag=[^&]+/, 'tag=' + tag): the first 'tag=' that a character other
\* than '&' follows, with all such characters after it
ReplaceTagText(url, tag) ==
  LET starts == {i \in 1..Len(url) :
                   MatchAt(url, "tag=", i) /\ i + 4 <= Len(url) /\ CharAt(url, i + 4) # "&"}
  IN  IF starts = {} THEN url
      ELSE LET i == SetMin(starts)
           IN  SubSeq(url, 1, i - 1) \o "tag=" \o tag \o Rest(url, FirstOf(url, {"&"}, i + 4))

\* tag "" is the absent (undefined) tag
updateTag(url, tag) ==
  LET Update(parsed) ==
        IF parsed.ok
        THEN SerializeURL(parsed,
               searchParams_set(DeleteAll(SearchParams(parsed.search), OldAffiliateParams),
                                "tag", tag))
        ELSE IF includes(url, "tag=")
             THEN ReplaceTagText(url, tag)
             ELSE url \o (IF includes(url, "?") THEN "&" ELSE "?") \o "tag=" \o tag
  IN  IF tag = "" THEN url ELSE Update(ParseURL(url))

\* convert leaving the path and the other parameters of the URL in place
AmazonPlugin_convertTagOnly(url, tag, cleanParams) == updateTag(url, tag)

\* convert building the clean product URL only if cleanParams is set
AmazonPlugin_convertIfClean(url, tag, cleanParams) ==
  LET Convert(asin) ==
        IF asin = "" \/ ~cleanParams THEN updateTag(url, tag)
        ELSE "https://www." \o extractDomain(url) \o "/dp/" \o asin
             \o (IF tag # "" THEN "?tag=" \o tag ELSE "")
  IN  Convert(extractProductId(url))

\* convert(url, {tag, cleanParams})
AmazonPlugin_convert(url, tag, cleanParams) ==
  LET Convert(asin) ==
        IF asin = "" THEN updateTag(url, tag)
        ELSE "https://www." \o extractDomain(url) \o "/dp/" \o asin
             \o (IF tag # "" THEN "?tag=" \o tag ELSE "")
  IN  Convert(extractProductId(url))

\* generateSlug(url, linkText), with `now` what Date.now() returns
AmazonPlugin_generateSlug(url, linkText, now) ==
  IF linkText # "" /\ linkText # url
  THEN StripTrailingDashes(SliceTo(slugify(linkText), MaxSlugLen))
  ELSE LET FromId(productId) ==
             IF productId # "" THEN "amazon-" \o toLowerCase(productId)
             ELSE "amazon-product-" \o toString36(now)
       IN  FromId(extractProductId(url))

(***************************************************************************)
(* Bounds and inputs                                                       *)
(***************************************************************************)

\* the longest occurrence list generateLinkMap is called with
MaxLinks == 3

\* the values Date.now() returns
Clock == {35, 36}

\* the occurrences the lists are made of: <<url, text>>
LinkCatalogue ==
  << << "https://a.co/x", "Buy" >>,
     << "https://a.co/y", "Buy" >>,
     << "https://b.co/x", "buy 2" >>,
     << "https://", "Buy" >>,
     << "http://", "" >>,
     << "http-x.md", "Doc" >>,
     << "/about", "About" >>,
     << "https://www.amazon.com/dp/B000A6PPOK", "" >>,
     << "https://amzn.to/3x", "https://amzn.to/3x" >>,
     << "https://my.co/a", "Buy" >>,
     << "https://www.amazon.com/dp/B000A6PPOK", "!!!" >> >>

CatalogueUrls == {LinkCatalogue[k][1] : k \in 1..Len(LinkCatalogue)}

\* the sequences over 1..n of length at most len
SeqsUpTo(n, len) == UNION {[1..k -> 1..n] : k \in 0..len}

\* the sets of plugin names a Transformer is constructed with
PluginSets == {{}, {"amazon"}}

Configs ==
  {[siteUrl |-> "https://my.co", baseUrl |-> "/l/", amazonEnabled |-> e, amazonTag |-> "t-20"] :
     e \in BOOLEAN}

(***************************************************************************)
(* Transformer: slug assignment                                            *)
(*                                                                         *)
(* An ExtractedLink is [url, text, file, line, column, isAffiliate,        *)
(* network]; network "" is the absent (undefined) network.  A Map is the   *)
(* sequence of its entries in insertion order; an entry of the link map is *)
(* [key, slug, name, url, is_affiliate, network], key being the raw URL.   *)
(* `pl` is the set of the names of the plugins the Transformer was         *)
(* constructed with, `cfg` the configuration: [siteUrl, baseUrl            *)
(* (tracking.baseUrl), amazonEnabled, amazonTag (networks.amazon)].        *)
(*                                                                         *)
(* The functions of one URL or one link are tabulated over the catalogue   *)
(* (the ...Table definitions), so that a step of the loop looks them up.   *)
(***************************************************************************)

MapHas(map, key) == \E i \in 1..Len(map) : map[i].key = key

MapGet(map, key) == map[CHOOSE i \in 1..Len(map) : map[i].key = key]

MapKeys(map) == {map[i].key : i \in 1..Len(map)}

\* Scanner.detectNetwork with the Amazon plugin, the one plugin there is
detectNetwork(url) ==
  IF AmazonPlugin_detect(url) THEN [isAffiliate |-> TRUE, network |-> "amazon"]
  ELSE [isAffiliate |-> FALSE, network |-> ""]

detectNetworkTable == [u \in CatalogueUrls |-> detectNetwork(u)]

\* the record Scanner.scanFile pushes for a link node
ExtractedLink(url, text, file, line, column) ==
  LET Push(detection) ==
        [url |-> url, text |-> text, file |-> file, line |-> line, column |-> column,
         isAffiliate |-> detection.isAffiliate,
         network |-> detection.network]
  IN  Push(detectNetworkTable[url])

\* new URL(u) for the URLs of the catalogue
URLTable == [u \in CatalogueUrls |-> ParseURL(u)]

\* the default slug: from the text, else from the URL's host and first path segment
DefaultSlug(link, now) ==
  IF link.text # "" /\ link.text # link.url
  THEN StripTrailingDashes(SliceTo(slugify(link.text), MaxSlugLen))
  ELSE LET FromUrl(url) ==
             IF url.ok
             THEN SliceTo(slugify(HostLabel(url.hostname) \o "-"
                                  \o FirstPathSegment(url.pathname)),
                          MaxSlugLen)
             ELSE "link-" \o toString36(now)
       IN  FromUrl(URLTable[link.url])

\* Transformer.generateSlug(link), with `now` what Date.now() returns
Transformer_generateSlug(link, pl, now) ==
  IF link.network # "" /\ link.network \in pl
  THEN AmazonPlugin_generateSlug(link.url, link.text, now)
  ELSE DefaultSlug(link, now)

generateSlugTable ==
  [k \in 1..Len(LinkCatalogue), pl \in PluginSets, now \in Clock |->
     Transformer_generateSlug(
       ExtractedLink(LinkCatalogue[k][1], LinkCatalogue[k][2], "a.md", 1, 1), pl, now)]

\* the index in the catalogue of the occurrence with this URL and text
CatalogueIndex(link) ==
  CHOOSE k \in 1..Len(LinkCatalogue) :
    LinkCatalogue[k][1] = link.url /\ LinkCatalogue[k][2] = link.text

\* ResolveSlug taking '<base>-2' as free without looking it up
ResolveSlugUnchecked(baseSlug, slug, counter, linkUrl, used) ==
  IF slug \notin used THEN slug
  ELSE LET Try(ok, domainSlug) ==
             IF ok /\ domainSlug \notin used THEN domainSlug
             ELSE baseSlug \o "-" \o ToDecimal(counter + 1)
           With(url) == Try(url.ok, baseSlug \o "-" \o HostLabel(url.hostname))
       IN  With(URLTable[linkUrl])

\* ResolveSlug trying the numeric suffixes before the host label
RECURSIVE ResolveSlugNumericFirst(_, _, _, _, _)
ResolveSlugNumericFirst(baseSlug, slug, counter, linkUrl, used) ==
  IF slug \notin used THEN slug
  ELSE ResolveSlugNumericFirst(baseSlug, baseSlug \o "-" \o ToDecimal(counter + 1),
                               counter + 1, linkUrl, used)

\* the while loop of generateLinkMap, entered with slug and counter
RECURSIVE ResolveSlug(_, _, _, _, _)
ResolveSlug(baseSlug, slug, counter, linkUrl, used) ==
  IF slug \notin used THEN slug
  ELSE LET Try(ok, domainSlug) ==
             IF ok /\ domainSlug \notin used THEN domainSlug
             ELSE ResolveSlug(baseSlug, baseSlug \o "-" \o ToDecimal(counter + 1), counter + 1,
                              linkUrl, used)
           With(url) == Try(url.ok, baseSlug \o "-" \o HostLabel(url.hostname))
       IN  With(URLTable[linkUrl])

\* FinalUrl converting for a registered network whether or not it is enabled
FinalUrlIgnoresEnabled(link, pl, cfg) ==
  IF link.network # "" /\ link.network \in pl
  THEN AmazonPlugin_convert(link.url, cfg.amazonTag, TRUE)
  ELSE link.url

\* finalUrl: the plugin's conversion for a registered, enabled network
FinalUrl(link, pl, cfg) ==
  IF link.network # "" /\ link.network \in pl /\ cfg.amazonEnabled
  THEN AmazonPlugin_convert(link.url, cfg.amazonTag, TRUE)
  ELSE link.url

FinalUrlTable ==
  [k \in 1..Len(LinkCatalogue), pl \in PluginSets, cfg \in Configs |->
     FinalUrl(ExtractedLink(LinkCatalogue[k][1], LinkCatalogue[k][2], "a.md", 1, 1), pl, cfg)]

\* LinkMapIteration with a later occurrence of a URL taking over the entry's name
LinkMapIterationLastWins(map, used, link, pl, cfg, now) ==
  IF ~startsWith(link.url, "http")
  THEN [map |-> map, usedSlugs |-> used, added |-> FALSE, baseSlug |-> ""]
  ELSE IF MapHas(map, link.url)
  THEN [map |-> [i \in 1..Len(map) |->
                   IF map[i].key = link.url
                   THEN [map[i] EXCEPT !.name = IF link.text # "" THEN link.text ELSE link.url]
                   ELSE map[i]],
        usedSlugs |-> used, added |-> FALSE, baseSlug |-> ""]
  ELSE LET Set(baseSlug, slug) ==
             [map |-> Append(map, [key          |-> link.url,
                                   slug         |-> slug,
                                   name         |-> IF link.text # "" THEN link.text ELSE link.url,
                                   url          |-> FinalUrlTable[CatalogueIndex(link), pl, cfg],
                                   is_affiliate |-> link.isAffiliate,
                                   network      |-> link.network]),
              usedSlugs |-> used \cup {slug},
              added |-> TRUE,
              baseSlug |-> baseSlug]
           Resolve(baseSlug) == Set(baseSlug, ResolveSlug(baseSlug, baseSlug, 1, link.url, used))
       IN  Resolve(generateSlugTable[CatalogueIndex(link), pl, now])

\* LinkMapIteration giving up on an occurrence whose URL cannot be parsed
LinkMapIterationSkipsUnparsable(map, used, link, pl, cfg, now) ==
  IF ~startsWith(link.url, "http") \/ MapHas(map, link.url) \/ ~URLTable[link.url].ok
  THEN [map |-> map, usedSlugs |-> used, added |-> FALSE, baseSlug |-> ""]
  ELSE LET Set(baseSlug, slug) ==
             [map |-> Append(map, [key          |-> link.url,
                                   slug         |-> slug,
                                   name         |-> IF link.text # "" THEN link.text ELSE link.url,
                                   url          |-> FinalUrlTable[CatalogueIndex(link), pl, cfg],
                                   is_affiliate |-> link.isAffiliate,
                                   network      |-> link.network]),
              usedSlugs |-> used \cup {slug},
              added |-> TRUE,
              baseSlug |-> baseSlug]
           Resolve(baseSlug) == Set(baseSlug, ResolveSlug(baseSlug, baseSlug, 1, link.url, used))
       IN  Resolve(generateSlugTable[CatalogueIndex(link), pl, now])

\* LinkMapIteration giving the base slug to the new entry and '<base>-1' to the
\* entry that had it
LinkMapIterationRenamesEarlier(map, used, link, pl, cfg, now) ==
  IF ~startsWith(link.url, "http") \/ MapHas(map, link.url)
  THEN [map |-> map, usedSlugs |-> used, added |-> FALSE, baseSlug |-> ""]
  ELSE LET Set(baseSlug) ==
             [map |-> Append([i \in 1..Len(map) |->
                                IF map[i].slug = baseSlug
                                THEN [map[i] EXCEPT !.slug = baseSlug \o "-1"]
                                ELSE map[i]],
                             [key          |-> link.url,
                              slug         |-> baseSlug,
                              name         |-> IF link.text # "" THEN link.text ELSE link.url,
                              url          |-> FinalUrlTable[CatalogueIndex(link), pl, cfg],
                              is_affiliate |-> link.isAffiliate,
                              network      |-> link.network]),
              usedSlugs |-> used \cup {baseSlug, baseSlug \o "-1"},
              added |-> TRUE,
              baseSlug |-> baseSlug]
       IN  Set(generateSlugTable[CatalogueIndex(link), pl, now])

\* one iteration of the for loop of generateLinkMap over `link`: the map, the
\* reserved slugs and the iteration's baseSlug after it ("" when it continues)
LinkMapIteration(map, used, link, pl, cfg, now) ==
  IF ~startsWith(link.url, "http") \/ MapHas(map, link.url)
  THEN [map |-> map, usedSlugs |-> used, added |-> FALSE, baseSlug |-> ""]
  ELSE LET Set(baseSlug, slug) ==
             [map |-> Append(map, [key          |-> link.url,
                                   slug         |-> slug,
                                   name         |-> IF link.text # "" THEN link.text ELSE link.url,
                                   url          |-> FinalUrlTable[CatalogueIndex(link), pl, cfg],
                                   is_affiliate |-> link.isAffiliate,
                                   network      |-> link.network]),
              usedSlugs |-> used \cup {slug},
              added |-> TRUE,
              baseSlug |-> baseSlug]
           Resolve(baseSlug) == Set(baseSlug, ResolveSlug(baseSlug, baseSlug, 1, link.url, used))
       IN  Resolve(generateSlugTable[CatalogueIndex(link), pl, now])

\* generateLinkMap(links), `nows` giving what Date.now() returns in each iteration
RECURSIVE LinkMapLoop(_, _, _, _, _, _)
LinkMapLoop(map, used, links, pl, cfg, nows) ==
  IF links = <<>> THEN map
  ELSE LET Continue(it) == LinkMapLoop(it.map, it.usedSlugs, Tail(links), pl, cfg, Tail(nows))
       IN  Continue(LinkMapIteration(map, used, Head(links), pl, cfg, Head(nows)))

generateLinkMap(links, pl, cfg, nows) == LinkMapLoop(<<>>, {}, links, pl, cfg, nows)

\* what the scanner reports for each occurrence of the catalogue
CatalogueLinks ==
  [k \in 1..Len(LinkCatalogue) |->
     ExtractedLink(LinkCatalogue[k][1], LinkCatalogue[k][2], "a.md", 1, 1)]

\* the occurrence list of the catalogue entries picked by `pick`, each on its own line
LinksOf(pick) == [i \in 1..Len(pick) |-> [CatalogueLinks[pick[i]] EXCEPT !.line = i]]

(***************************************************************************)
(* Scanner: the occurrences of a document and the external-link filter     *)
(*                                                                         *)
(* A document is a sequence of segments, each <<kind, k>> with k an entry   *)
(* of the catalogue: kind "link" is a line with the markdown link          *)
(* [text](url), which the parser reports as a link node at column 1 of its *)
(* line; kind "code" is the same line inside a fenced code block (three    *)
(* lines), which is a code node and no link node; kind "jsx" is a line     *)
(* with the anchor element <a href="url">text</a>, which the MDX parser     *)
(* reports as a JSX element at column 1 of its line.  scanFile visits the  *)
(* link nodes first and the JSX elements after them.                       *)
(***************************************************************************)

\* the longest document, in segments
MaxSegments == 3

\* the segments the documents are made of
SegmentCatalogue ==
  << << "link", 1 >>, << "code", 1 >>, << "link", 3 >>, << "link", 10 >>,
     << "link", 6 >>, << "link", 7 >>, << "link", 9 >>, << "jsx", 1 >> >>

MarkdownLink(k) == "[" \o LinkCatalogue[k][2] \o "](" \o LinkCatalogue[k][1] \o ")"

JsxLink(k) == "<a href=\"" \o LinkCatalogue[k][1] \o "\">" \o LinkCatalogue[k][2] \o "</a>"

\* the lines of a segment: the text, the node the parser makes of it, the entry
SegmentLines(g) ==
  IF g[1] = "link"
  THEN << [text |-> MarkdownLink(g[2]), node |-> "link", k |-> g[2]] >>
  ELSE IF g[1] = "jsx"
  THEN << [text |-> JsxLink(g[2]), node |-> "jsx", k |-> g[2]] >>
  ELSE << [text |-> "~~~", node |-> "code", k |-> g[2]],
          [text |-> MarkdownLink(g[2]), node |-> "code", k |-> g[2]],
          [text |-> "~~~", node |-> "code", k |-> g[2]] >>

SegmentLinesTable == [i \in 1..Len(SegmentCatalogue) |-> SegmentLines(SegmentCatalogue[i])]

\* the lines of the document
RECURSIVE LinesOf(_)
LinesOf(doc) ==
  IF doc = <<>> THEN <<>>
  ELSE SegmentLinesTable[CHOOSE i \in 1..Len(SegmentCatalogue) : SegmentCatalogue[i] = Head(doc)]
       \o LinesOf(Tail(doc))

\* lines.join('\n')
RECURSIVE Join(_)
Join(lines) ==
  IF lines = <<>> THEN ""
  ELSE IF Len(lines) = 1 THEN lines[1]
  ELSE Join(SubSeq(lines, 1, Len(lines) \div 2)) \o "\n"
       \o Join(SubSeq(lines, Len(lines) \div 2 + 1, Len(lines)))

\* the content of the file of the document
ContentOf(doc) == Join([i \in 1..Len(LinesOf(doc)) |-> LinesOf(doc)[i].text])

\* Scanner.scanFile: the link nodes of the document in document order, then
\* its JSX anchors in document order
scanFile(doc) ==
  LET Nodes(lines) ==
        [i \in 1..Len(lines) |->
           [node |-> lines[i].node, link |-> [CatalogueLinks[lines[i].k] EXCEPT !.line = i]]]
      Links(found) == [j \in 1..Len(found) |-> found[j].link]
      Visit(nodes) == Links(SelectSeq(nodes, LAMBDA n : n.node = "link"))
                      \o Links(SelectSeq(nodes, LAMBDA n : n.node = "jsx"))
  IN  Visit(Nodes(LinesOf(doc)))

\* content.split('\n')
RECURSIVE splitLines(_)
splitLines(content) ==
  LET Cut(i) == IF i = 0 THEN <<content>>
                ELSE <<SubSeq(content, 1, i - 1)>> \o splitLines(Rest(content, i + 1))
  IN  Cut(IndexOf(content, "\n"))

\* the node the parser makes of a line outside a code block: a link node of
\* [text](url), a JSX element of <a href="url">text</a>, else text
ParseLine(line) ==
  IF startsWith(line, "[") /\ endsWith(line, ")") /\ includes(line, "](")
  THEN LET Node(i) == [node |-> "link", url |-> SubSeq(line, i + 2, Len(line) - 1),
                       text |-> SubSeq(line, 2, i - 1)]
       IN  Node(IndexOf(line, "]("))
  ELSE IF startsWith(line, "<a href=\"") /\ endsWith(line, "</a>")
  THEN LET Node(q) == [node |-> "jsx", url |-> SubSeq(line, 10, q - 1),
                       text |-> SubSeq(line, q + 2, Len(line) - 4)]
       IN  Node(IndexFrom(line, "\"", 10))
  ELSE [node |-> "text", url |-> "", text |-> ""]

\* processor.parse(content): the link nodes and JSX elements of the lines from
\* the i-th on, with their line; a line of three tildes opens or closes a
\* fenced code block, whose lines make no node
RECURSIVE ParseLines(_, _, _)
ParseLines(lines, i, inCode) ==
  IF i > Len(lines) THEN <<>>
  ELSE IF lines[i] = "~~~" THEN ParseLines(lines, i + 1, ~inCode)
  ELSE LET Node(n) == IF inCode \/ n.node = "text" THEN <<>>
                      ELSE <<[node |-> n.node, url |-> n.url, text |-> n.text, line |-> i]>>
       IN  Node(ParseLine(lines[i])) \o ParseLines(lines, i + 1, inCode)

\* the record scanFile pushes for a parsed node: extractLinkText(node) and
\* extractJsxText(node) || url give the URL for an empty text
ScannedLink(n, filePath) ==
  LET Push(text, detection) ==
        [url |-> n.url, text |-> text, file |-> filePath, line |-> n.line, column |-> 1,
         isAffiliate |-> detection.isAffiliate, network |-> detection.network]
  IN  Push(IF n.text = "" THEN n.url ELSE n.text,
           IF n.url \in CatalogueUrls THEN detectNetworkTable[n.url] ELSE detectNetwork(n.url))

\* Scanner.scanFile on a file holding `content`
scanContent(filePath, content) ==
  LET Links(found) == [j \in 1..Len(found) |-> ScannedLink(found[j], filePath)]
      Visit(nodes) == Links(SelectSeq(nodes, LAMBDA n : n.node = "link"))
                      \o Links(SelectSeq(nodes, LAMBDA n : n.node = "jsx"))
  IN  Visit(ParseLines(splitLines(content), 1, FALSE))

\* new URL(config.siteUrl).hostname
siteHostTable == [cfg \in Configs |-> ParseURL(cfg.siteUrl)]

\* Scanner.isExternalLink(url)
isExternalLink(url, cfg) ==
  IF startsWith(url, "/") \/ startsWith(url, "#") \/ startsWith(url, ".") THEN FALSE
  ELSE IF startsWith(url, "mailto:") \/ startsWith(url, "tel:") THEN FALSE
  ELSE LET Differ(linkUrl, siteUrl) ==
             IF linkUrl.ok /\ siteUrl.ok THEN linkUrl.hostname # siteUrl.hostname ELSE FALSE
       IN  Differ(URLTable[url], siteHostTable[cfg])

\* allLinks.filter(link => this.isExternalLink(link.url))
externalLinks(links, cfg) == SelectSeq(links, LAMBDA l : isExternalLink(l.url, cfg))

(***************************************************************************)
(* Transformer.transformFile                                               *)
(***************************************************************************)

RegexSpecials == {".", "*", "+", "?", "^", "$", "{", "}", "(", ")", "|", "[", "]", "\\"}

\* str.replace(/[.*+?^${}()|[\]\\]/g, '\\$&'): a backslash before each special
RECURSIVE escapeRegex(_)
escapeRegex(str) ==
  IF Len(str) <= 1 THEN (IF str \in RegexSpecials THEN "\\" \o str ELSE str)
  ELSE escapeRegex(SubSeq(str, 1, Len(str) \div 2)) \o escapeRegex(Rest(str, Len(str) \div 2 + 1))

\* new RegExp(source): the pattern as a sequence of tokens, each one literal
\* character (escaped or ordinary) or the wildcard '.'; the other operators
\* of the regular expression syntax never reach it unescaped
RECURSIVE RegExpTokens(_)
RegExpTokens(source) ==
  IF source = "" THEN <<>>
  ELSE IF Head(source) = "\\" /\ Len(source) >= 2
       THEN <<[any |-> FALSE, c |-> CharAt(source, 2)]>> \o RegExpTokens(Rest(source, 3))
       ELSE <<[any |-> Head(source) = ".", c |-> Head(source)]>> \o RegExpTokens(Tail(source))

\* the pattern matches s at position i
TokensMatchAt(s, tokens, i) ==
  /\ i + Len(tokens) - 1 <= Len(s)
  /\ \A k \in 1..Len(tokens) :
        IF tokens[k].any THEN CharAt(s, i + k - 1) # "\n" ELSE CharAt(s, i + k - 1) = tokens[k].c

\* s with the matches at the positions M, each n long, replaced by r from
\* `from` on, left to right
RECURSIVE ReplaceFrom(_, _, _, _, _)
ReplaceFrom(s, M, from, n, r) ==
  LET next == {i \in M : i >= from}
  IN  IF next = {} THEN Rest(s, from)
      ELSE SubSeq(s, from, SetMin(next) - 1) \o r \o ReplaceFrom(s, M, SetMin(next) + n, n, r)

\* s.replace(pattern, r) for a global pattern: every match is replaced (r has
\* no '$', so it is taken literally)
ReplaceAll(s, tokens, r) ==
  ReplaceFrom(s, {i \in 1..Len(s) : TokensMatchAt(s, tokens, i)}, 1, Len(tokens), r)

\* urlPattern for the URLs of the catalogue
urlPatternTable ==
  [u \in CatalogueUrls |-> RegExpTokens("\\]\\(" \o escapeRegex(u) \o "\\)")]

\* [...links].sort(...): descending by line, then by column; the sort is stable
sortLinks(links) ==
  LET Before(a, b) ==
        \/ links[a].line > links[b].line
        \/ links[a].line = links[b].line /\ links[a].column > links[b].column
        \/ links[a].line = links[b].line /\ links[a].column = links[b].column /\ a < b
      Rank(b) == Cardinality({a \in 1..Len(links) : Before(a, b)})
  IN  [j \in 1..Len(links) |-> links[CHOOSE b \in 1..Len(links) : Rank(b) = j - 1]]

findOrGenerateSlug(link, linkmap, pl, now) ==
  IF MapHas(linkmap, link.url) THEN MapGet(linkmap, link.url).slug
  ELSE generateSlugTable[CatalogueIndex(link), pl, now]

\* one iteration of the for loop of transformFile over `link`
TransformIteration(content, changeList, link, linkmap, pl, cfg, now) ==
  IF ~startsWith(link.url, "http")
  THEN [transformedContent |-> content, changes |-> changeList]
  ELSE LET Push(slug, trackingUrl, replaced) ==
             [transformedContent |-> replaced,
              changes |-> IF replaced # content
                          THEN Append(changeList, [original |-> link.url, slug |-> slug,
                                                   trackingUrl |-> trackingUrl])
                          ELSE changeList]
           Replace(slug, trackingUrl) ==
             Push(slug, trackingUrl,
                  ReplaceAll(content, urlPatternTable[link.url], "](" \o trackingUrl \o ")"))
           With(slug) == Replace(slug, cfg.baseUrl \o slug)
       IN  With(findOrGenerateSlug(link, linkmap, pl, now))

(***************************************************************************)
(* The state                                                               *)
(***************************************************************************)

VARIABLES
  plugins,      \* Transformer.plugins: the names of the registered plugins
  config,       \* Transformer.config
  lmLinks,      \* generateLinkMap: the occurrence list `links` it is called with
  lmPc,         \* "idle" before the first call, "loop" inside the for loop,
                \* "returned" after a call, "done" after the second call
  lmPos,        \* the index in lmLinks of the occurrence the loop takes next
  lmMap,        \* the local `map`
  usedSlugs,    \* the local `usedSlugs`
  lmBases,      \* the `baseSlug` of the iteration that made each entry of lmMap
  lmResults,    \* the maps the calls so far have returned, in call order
  doc,          \* the segments the file a.md was written from
  fileContent,  \* the content of the file a.md
  tfPc,         \* transformFile: "idle", "loop" inside the for loop, "returned", "applied"
  tfLinks,      \* the argument `links`
  linkMap,      \* the argument `linkMap`
  sortedLinks,  \* the local `sortedLinks`
  tfPos,        \* the index in sortedLinks of the occurrence the loop takes next
  originalContent,     \* the local `originalContent`
  transformedContent,  \* the local `transformedContent`
  changes,      \* the local `changes`
  tfResults,    \* the `results` of transformFiles
  adapter,      \* config.storage.adapter: "json" or "supabase"
  fsFile,       \* the flat file: [exists, links], links the JSON array it holds
  fsPending,    \* the upsertLinks calls suspended at their await, oldest first:
                \* [existing, links], existing being what getLinks read
  fsWrites,     \* how many times writeFileSync was called
  fsDone,       \* the upsertLinks call of the file adapter that completed last, if any:
                \* <<[existing, links]>>, existing being what its getLinks read
  upserted,     \* the slugs of the batches upsertLinks was called with so far
  stCalls,      \* how many upsertLinks calls were started
  sbTable,      \* the rows of the remote table
  sbRequests,   \* how many requests were sent to the remote store
  sbFailed,     \* whether an upsertLinks call has thrown
  optDryRun,    \* options.dryRun of the command
  exitCode,     \* the exit status of the command, -1 while it runs
  cmdPc,        \* the transform command: "start", "scanned", "mapped", "transforming",
                \* "applying", "reporting", "done", "failed"
  corpus,       \* the segments each content file was written from
  disk,         \* the content of each content file
  resultExternalLinks,  \* result.externalLinks
  cmdLinkMap,   \* the local `linkMap`
  fileLinks,    \* the local `fileLinks`: the entries [file, links] in insertion order
  cmdPos,       \* the index in fileLinks of the file transformFiles takes next
  transformResults,  \* the `results` of transformFiles, the local `transformResults`
  applyPos,     \* the index in transformResults of the result applyTransforms takes next
  applyCalls,   \* how many times applyTransforms was called
  writeFailedAt,  \* the index in transformResults of the result whose writeFileSync
                \* threw, 0 if none did
  cmdTrace,     \* the calls the command has made so far: [op, file]
  startDisks,   \* the content of the files when each run of the transform command started
  syncPc,       \* the sync command: "start", "scanned", "mapped", "fetched", "partitioned",
                \* "reporting", "done", "failed"
  syncLinks,    \* the local `links`: the values of the link map
  existingLinks,  \* the local `existingLinks`
  newLinks,     \* the local `newLinks`
  updatedLinks, \* the local `updatedLinks`
  getLinksCalls,  \* how many times the command called adapter.getLinks
  failedOp,     \* the adapter method that threw, "" if none did
  syncReport,   \* what the command printed: <<[totalLinks, newLinks, updatedLinks]>>
  cvUrl,        \* AmazonPlugin.convert: the argument `url`
  cvTag,        \* options.tag, "" if the options have none
  cvCalls,      \* the calls of convert made so far: [cleanParams, result], cleanParams
                \* being "unset", "true" or "false"
  rpLinks,      \* the occurrence list the Reporter and the Transformer are given
  rpMap,        \* <<the Map generateLinkMap(rpLinks) returned>>, <<>> before the call
  reportLinks   \* <<the array toAffiliateLinks(rpLinks) returned>>, <<>> before the call

cfgVars == <<plugins, config>>

lmVars == <<lmLinks, lmPc, lmPos, lmMap, usedSlugs, lmBases, lmResults>>

tfVars == <<doc, fileContent, tfPc, tfLinks, linkMap, sortedLinks, tfPos, originalContent,
            transformedContent, changes, tfResults>>

stVars == <<adapter, fsFile, fsPending, fsWrites, fsDone, upserted, stCalls, sbTable, sbRequests,
            sbFailed>>

syncVars == <<syncPc, syncLinks, existingLinks, newLinks, updatedLinks, getLinksCalls, failedOp,
              syncReport>>

cliVars == <<optDryRun, exitCode, cmdPc, corpus, disk, resultExternalLinks, cmdLinkMap, fileLinks,
             cmdPos, transformResults, applyPos, applyCalls, writeFailedAt, cmdTrace, startDisks,
             syncVars>>

apiVars == <<cvUrl, cvTag, cvCalls, rpLinks, rpMap, reportLinks>>

vars == <<cfgVars, lmVars, tfVars, stVars, cliVars, apiVars>>

\* generateLinkMap has not been called
LmIdle ==
  /\ lmLinks = <<>>
  /\ lmPc = "idle"
  /\ lmPos = 1
  /\ lmMap = <<>>
  /\ usedSlugs = {}
  /\ lmBases = <<>>
  /\ lmResults = <<>>

\* there is no file and transformFile has not been called
TfIdle ==
  /\ doc = <<>>
  /\ fileContent = ""
  /\ tfPc = "idle"
  /\ tfLinks = <<>>
  /\ linkMap = <<>>
  /\ sortedLinks = <<>>
  /\ tfPos = 1
  /\ originalContent = ""
  /\ transformedContent = ""
  /\ changes = <<>>
  /\ tfResults = <<>>

\* the stores are empty and no call was made to them
StIdle ==
  /\ adapter = "json"
  /\ fsFile = [exists |-> FALSE, links |-> <<>>]
  /\ fsPending = <<>>
  /\ fsWrites = 0
  /\ fsDone = <<>>
  /\ upserted = {}
  /\ stCalls = 0
  /\ sbTable = <<>>
  /\ sbRequests = 0
  /\ sbFailed = FALSE

\* the sync command does not run
SyncIdle ==
  /\ syncPc = "start"
  /\ syncLinks = <<>>
  /\ existingLinks = <<>>
  /\ newLinks = <<>>
  /\ updatedLinks = <<>>
  /\ getLinksCalls = 0
  /\ failedOp = ""
  /\ syncReport = <<>>

\* no command runs
CliIdle ==
  /\ SyncIdle
  /\ optDryRun = FALSE
  /\ exitCode = -1
  /\ cmdPc = "start"
  /\ corpus = <<>>
  /\ disk = <<>>
  /\ resultExternalLinks = <<>>
  /\ cmdLinkMap = <<>>
  /\ fileLinks = <<>>
  /\ cmdPos = 1
  /\ transformResults = <<>>
  /\ applyPos = 1
  /\ applyCalls = 0
  /\ writeFailedAt = 0
  /\ cmdTrace = <<>>
  /\ startDisks = <<>>

\* neither convert nor the Reporter was called
ApiIdle ==
  /\ cvUrl = ""
  /\ cvTag = ""
  /\ cvCalls = <<>>
  /\ rpLinks = <<>>
  /\ rpMap = <<>>
  /\ reportLinks = <<>>

(***************************************************************************)
(* generateLinkMap, one action per iteration of its loop; it is called on  *)
(* the list and then called again on the same list                         *)
(***************************************************************************)

InitLinkMap ==
  /\ plugins \in PluginSets
  /\ config \in Configs
  /\ lmLinks \in {LinksOf(pick) : pick \in SeqsUpTo(Len(LinkCatalogue), MaxLinks)}
  /\ lmPc = "idle"
  /\ lmPos = 1
  /\ lmMap = <<>>
  /\ usedSlugs = {}
  /\ lmBases = <<>>
  /\ lmResults = <<>>
  /\ TfIdle
  /\ StIdle
  /\ CliIdle
  /\ ApiIdle

\* LmCall with usedSlugs outliving the call
LmCallKeepsSlugs ==
  /\ lmPc \in {"idle", "returned"}
  /\ lmPc' = "loop"
  /\ lmPos' = 1
  /\ lmMap' = <<>>
  /\ lmBases' = <<>>
  /\ UNCHANGED <<usedSlugs, lmLinks, lmResults, apiVars, cfgVars, cliVars, tfVars, stVars>>

\* generateLinkMap(lmLinks) is called: new Map(), new Set()
LmCall ==
  /\ lmPc \in {"idle", "returned"}
  /\ lmPc' = "loop"
  /\ lmPos' = 1
  /\ lmMap' = <<>>
  /\ usedSlugs' = {}
  /\ lmBases' = <<>>
  /\ UNCHANGED <<lmLinks, lmResults, apiVars, cfgVars, cliVars, tfVars, stVars>>

\* whether generateSlug(link) returns a slug made of Date.now()
UsesClock(link, pl) ==
  \E t1, t2 \in Clock :
    generateSlugTable[CatalogueIndex(link), pl, t1] # generateSlugTable[CatalogueIndex(link), pl, t2]

\* one iteration of the loop; the clock reads `now`
LmStep ==
  /\ lmPc = "loop"
  /\ lmPos <= Len(lmLinks)
  /\ \E now \in Clock :
       \E it \in {LinkMapIteration(lmMap, usedSlugs, lmLinks[lmPos], plugins, config, now)} :
         /\ lmMap' = it.map
         /\ usedSlugs' = it.usedSlugs
         /\ lmBases' = IF it.added THEN Append(lmBases, it.baseSlug) ELSE lmBases
  /\ lmPos' = lmPos + 1
  /\ UNCHANGED <<lmLinks, lmPc, lmResults, apiVars, cfgVars, cliVars, tfVars, stVars>>

\* return map
LmReturn ==
  /\ lmPc = "loop"
  /\ lmPos > Len(lmLinks)
  /\ lmResults' = Append(lmResults, lmMap)
  /\ lmPc' = IF lmResults = <<>> THEN "returned" ELSE "done"
  /\ UNCHANGED <<lmLinks, lmPos, lmMap, usedSlugs, lmBases, apiVars, cfgVars, cliVars, tfVars,
                 stVars>>

NextLinkMap == LmCall \/ LmStep \/ LmReturn

SpecLinkMap == InitLinkMap /\ [][NextLinkMap]_vars

(***************************************************************************)
(* Properties of generateLinkMap                                           *)
(***************************************************************************)

Slugs(map) == {map[i].slug : i \in 1..Len(map)}

\* the URLs of the list that generateLinkMap does not skip
QualifyingUrls == {lmLinks[i].url : i \in {j \in 1..Len(lmLinks) : startsWith(lmLinks[j].url, "http")}}

\* C1: every table generateLinkMap returns has exactly one entry per distinct
\* URL of the list that begins with 'http', and no two entries have the same slug
C1_OneEntryPerUrlUniqueSlugs ==
  \A r \in 1..Len(lmResults) :
    /\ MapKeys(lmResults[r]) = QualifyingUrls
    /\ Len(lmResults[r]) = Cardinality(QualifyingUrls)
    /\ Cardinality(Slugs(lmResults[r])) = Len(lmResults[r])

\* a call has returned a table for a list that repeats a URL and has two URLs
\* with the same base slug
C1_Witness ==
  /\ lmPc = "returned"
  /\ Len(lmLinks) > Len(lmMap)
  /\ \A i \in 1..Len(lmLinks) : startsWith(lmLinks[i].url, "http")
  /\ Len(lmMap) = 2
  /\ lmBases[1] = lmBases[2]

\* the slug each URL has in a table
SlugOfUrl(map) == [u \in MapKeys(map) |-> MapGet(map, u).slug]

\* C2 as stated: the second call on the same list returns the same slug for
\* every URL as the first, whatever the clock read
C2_SameSlugsAnyClock ==
  Len(lmResults) = 2 => SlugOfUrl(lmResults[1]) = SlugOfUrl(lmResults[2])

\* no occurrence of the list that generateLinkMap takes gets a slug made of Date.now()
NoClockFallback ==
  \A i \in 1..Len(lmLinks) :
    startsWith(lmLinks[i].url, "http") => ~UsesClock(lmLinks[i], plugins)

\* C2, amended: the second call on the same list returns the same slug for
\* every URL as the first, provided no occurrence takes a clock-based fallback
C2_SameSlugsWithoutClockFallback ==
  (Len(lmResults) = 2 /\ NoClockFallback) => SlugOfUrl(lmResults[1]) = SlugOfUrl(lmResults[2])

\* two calls have returned, no slug came from the clock and a collision was resolved
C2_Witness ==
  /\ lmPc = "done"
  /\ NoClockFallback
  /\ Len(lmMap) = 3
  /\ lmBases[1] = lmBases[2]
  /\ lmMap[2].slug # lmBases[2]

NumericSlug(base, n) == base \o "-" \o ToDecimal(n)

\* the slug C3 prescribes for a URL with this base slug when `before` is reserved
C3_Prescribed(base, linkUrl, before) ==
  LET hostSlug == base \o "-" \o HostLabel(URLTable[linkUrl].hostname)
  IN  IF base \notin before THEN base
      ELSE IF URLTable[linkUrl].ok /\ hostSlug \notin before THEN hostSlug
      ELSE NumericSlug(base, SetMin({n \in 2..(Cardinality(before) + 2) :
                                       NumericSlug(base, n) \notin before}))

\* C3: a URL whose base slug is reserved gets '<base>-<hostLabel>' if that is
\* free, otherwise '<base>-n' for the smallest n >= 2 with '<base>-n' not reserved
C3_CollisionSuffix ==
  \A i \in 1..Len(lmMap) :
    lmMap[i].slug = C3_Prescribed(lmBases[i], lmMap[i].key, {lmMap[j].slug : j \in 1..(i - 1)})

\* the third URL found its base slug and '<base>-2' reserved, had no free host
\* label alternative, and got '<base>-3'
C3_Witness ==
  /\ Len(lmMap) = 3
  /\ lmBases[3] \in {lmMap[1].slug, lmMap[2].slug}
  /\ NumericSlug(lmBases[3], 2) \in {lmMap[1].slug, lmMap[2].slug}
  /\ lmMap[3].slug = NumericSlug(lmBases[3], 3)

\* C8: every key of a table generateLinkMap returns starts with 'http://' or 'https://'
C8_KeysAreHttpUrls ==
  \A r \in 1..Len(lmResults) :
    \A u \in MapKeys(lmResults[r]) : startsWith(u, "http://") \/ startsWith(u, "https://")

(***************************************************************************)
(* The transform command on one file: scan, generateLinkMap over the       *)
(* external links, transformFile (one action per iteration of its loop),   *)
(* applyTransforms.  transformFile is given the file's external links, as  *)
(* the command gives them, or all the links the scanner found in the file. *)
(***************************************************************************)

Documents ==
  {[i \in 1..Len(pick) |-> SegmentCatalogue[pick[i]]] :
     pick \in SeqsUpTo(Len(SegmentCatalogue), MaxSegments)}

InitTransform ==
  /\ plugins \in PluginSets
  /\ config \in Configs
  /\ doc \in Documents
  /\ fileContent = ContentOf(doc)
  /\ tfPc = "idle"
  /\ tfLinks = <<>>
  /\ linkMap = <<>>
  /\ sortedLinks = <<>>
  /\ tfPos = 1
  /\ originalContent = ""
  /\ transformedContent = ""
  /\ changes = <<>>
  /\ tfResults = <<>>
  /\ LmIdle
  /\ StIdle
  /\ CliIdle
  /\ ApiIdle

\* transformFile(a.md, links, linkMap) is called and reads the file and sorts the links
TfCall ==
  /\ tfPc = "idle"
  /\ \E unfiltered \in BOOLEAN, now \in Clock :
       \E all \in {scanFile(doc)} :
         \E external \in {externalLinks(all, config)} :
           /\ tfLinks' = IF unfiltered THEN all ELSE external
           /\ linkMap' = generateLinkMap(external, plugins, config,
                                         [i \in 1..Len(external) |-> now])
           /\ sortedLinks' = sortLinks(IF unfiltered THEN all ELSE external)
  /\ originalContent' = fileContent
  /\ transformedContent' = fileContent
  /\ changes' = <<>>
  /\ tfPos' = 1
  /\ tfPc' = "loop"
  /\ UNCHANGED <<doc, fileContent, tfResults, apiVars, cfgVars, cliVars, lmVars, stVars>>

\* one iteration of the loop; the clock reads `now`
TfStep ==
  /\ tfPc = "loop"
  /\ tfPos <= Len(sortedLinks)
  /\ \E now \in Clock :
       \E it \in {TransformIteration(transformedContent, changes, sortedLinks[tfPos],
                                     linkMap, plugins, config, now)} :
         /\ transformedContent' = it.transformedContent
         /\ changes' = it.changes
  /\ tfPos' = tfPos + 1
  /\ UNCHANGED <<doc, fileContent, tfPc, tfLinks, linkMap, sortedLinks, originalContent,
                 tfResults, apiVars, cfgVars, cliVars, lmVars, stVars>>

\* TfReturn with transformFiles keeping every result
TfReturnKeepsAll ==
  /\ tfPc = "loop"
  /\ tfPos > Len(sortedLinks)
  /\ tfResults' = <<[file |-> "a.md", originalContent |-> originalContent,
                     transformedContent |-> transformedContent,
                     linksTransformed |-> Len(changes), changes |-> changes]>>
  /\ tfPc' = "returned"
  /\ UNCHANGED <<doc, fileContent, tfLinks, linkMap, sortedLinks, tfPos, originalContent,
                 transformedContent, changes, apiVars, cfgVars, cliVars, lmVars, stVars>>

\* transformFile returns; transformFiles keeps the result if it has changes
TfReturn ==
  /\ tfPc = "loop"
  /\ tfPos > Len(sortedLinks)
  /\ tfResults' = IF Len(changes) > 0
                  THEN <<[file |-> "a.md", originalContent |-> originalContent,
                          transformedContent |-> transformedContent,
                          linksTransformed |-> Len(changes), changes |-> changes]>>
                  ELSE <<>>
  /\ tfPc' = "returned"
  /\ UNCHANGED <<doc, fileContent, tfLinks, linkMap, sortedLinks, tfPos, originalContent,
                 transformedContent, changes, apiVars, cfgVars, cliVars, lmVars, stVars>>

\* applyTransforms(results)
TfApply ==
  /\ tfPc = "returned"
  /\ fileContent' = IF tfResults = <<>> THEN fileContent ELSE tfResults[1].transformedContent
  /\ tfPc' = "applied"
  /\ UNCHANGED <<doc, tfLinks, linkMap, sortedLinks, tfPos, originalContent, transformedContent,
                 changes, tfResults, apiVars, cfgVars, cliVars, lmVars, stVars>>

NextTransform == TfCall \/ TfStep \/ TfReturn \/ TfApply

SpecTransform == InitTransform /\ [][NextTransform]_vars

(***************************************************************************)
(* Properties of transformFile                                             *)
(***************************************************************************)

\* line i of the document differs between originalContent and transformedContent
Rewritten(i) == Split(originalContent, "\n")[i] # Split(transformedContent, "\n")[i]

\* the lines of the document that are link occurrences
LinkLines == {i \in 1..Len(LinesOf(doc)) : LinesOf(doc)[i].node = "link"}

\* the lines of the occurrences transformFile was given
SuppliedLines == {tfLinks[j].line : j \in 1..Len(tfLinks)}

UrlOfLine(i) == LinkCatalogue[LinesOf(doc)[i].k][1]

\* the link occurrences that are external, and those that are internal
ExternalLines == {i \in LinkLines : isExternalLink(UrlOfLine(i), config)}

InternalLines == LinkLines \ ExternalLines

\* C4: changes has as many entries as there are link occurrences in the file
\* whose text was rewritten
C4_OneChangePerRewrittenOccurrence ==
  tfPc = "returned" => Len(changes) = Cardinality({i \in LinkLines : Rewritten(i)})

\* C5: every part of the document that is not one of the supplied occurrences
\* is the same in originalContent and transformedContent
C5_OnlySuppliedOccurrencesAltered ==
  tfPc = "returned" => \A i \in 1..Len(LinesOf(doc)) : i \notin SuppliedLines => ~Rewritten(i)

\* C6: given the unfiltered occurrence list of the file, transformFile leaves
\* every internal link untouched
C6_InternalLinksUntouched ==
  (tfPc = "returned" /\ tfLinks = scanFile(doc)) => \A i \in InternalLines : ~Rewritten(i)

\* C7: a document with N occurrences of N distinct external URLs and M internal
\* links gets exactly N change entries and its internal links are unchanged
C7_NChangesInternalUnchanged ==
  (tfPc = "returned" /\ Cardinality({UrlOfLine(i) : i \in ExternalLines}) = Cardinality(ExternalLines))
    => /\ Len(changes) = Cardinality(ExternalLines)
       /\ \A i \in InternalLines : ~Rewritten(i)

(***************************************************************************)
(* Further properties of generateLinkMap                                   *)
(***************************************************************************)

\* plugin.convert(url, {tag, cleanParams: true}) for the URLs of the catalogue
ConvertTable ==
  [u \in CatalogueUrls, cfg \in Configs |-> AmazonPlugin_convert(u, cfg.amazonTag, TRUE)]

\* the tables generateLinkMap has made: the one in the making and those returned
LinkMaps == {lmMap} \cup {lmResults[i] : i \in 1..Len(lmResults)}

\* C16: the url of an entry is the plugin's conversion of its key if the
\* occurrence has a network whose plugin is registered and which is enabled in the
\* configuration, and the key itself otherwise; an entry of a URL the scanner
\* found to be of a network has that network and is_affiliate true
C16_ConvertOnlyIfEnabled ==
  /\ \A map \in LinkMaps :
       \A i \in 1..Len(map) :
         /\ map[i].url = IF /\ map[i].network # ""
                            /\ map[i].network \in plugins
                            /\ config.amazonEnabled
                         THEN ConvertTable[map[i].key, config]
                         ELSE map[i].key
         /\ map[i].is_affiliate = detectNetworkTable[map[i].key].isAffiliate
         /\ map[i].network = detectNetworkTable[map[i].key].network
  /\ \A j \in 1..Len(lmLinks) :
       (j < lmPos /\ lmLinks[j].network # "") => MapHas(lmMap, lmLinks[j].url)

\* a table was returned with an entry of a URL of the disabled Amazon network,
\* the plugin being registered; converted, the URL would be another
C16_Witness ==
  /\ lmPc \in {"returned", "done"}
  /\ plugins = {"amazon"}
  /\ ~config.amazonEnabled
  /\ \E i \in 1..Len(lmMap) :
       /\ lmMap[i].is_affiliate
       /\ lmMap[i].network = "amazon"
       /\ lmMap[i].url = lmMap[i].key
       /\ ConvertTable[lmMap[i].key, config] # lmMap[i].key
       /\ lmMap[i].slug # ""

\* the first occurrence of the URL in the list
FirstOccurrence(url) == lmLinks[SetMin({j \in 1..Len(lmLinks) : lmLinks[j].url = url})]

\* C17: the name of an entry is the text of the first occurrence of its URL (the
\* URL itself if that has no text) and the slug was derived from the slug
\* generateSlug gives that occurrence; an iteration over an occurrence whose URL
\* the table has changes neither the table nor the set of reserved slugs
C17_FirstOccurrenceWins ==
  /\ [](\A i \in 1..Len(lmMap) :
          /\ lmMap[i].name = IF FirstOccurrence(lmMap[i].key).text # ""
                             THEN FirstOccurrence(lmMap[i].key).text
                             ELSE lmMap[i].key
          /\ \E now \in Clock :
               lmBases[i] = generateSlugTable[CatalogueIndex(FirstOccurrence(lmMap[i].key)),
                                              plugins, now])
  /\ [][(lmPc = "loop" /\ lmPos <= Len(lmLinks) /\ MapHas(lmMap, lmLinks[lmPos].url))
          => (lmMap' = lmMap /\ usedSlugs' = usedSlugs)]_vars

\* a table was returned for a list with two occurrences of one URL whose texts,
\* and the slugs generateSlug gives them, differ
C17_Witness ==
  /\ lmPc \in {"returned", "done"}
  /\ \E i, j \in 1..Len(lmLinks) :
       /\ i < j
       /\ lmLinks[i].url = lmLinks[j].url
       /\ lmLinks[i].text # lmLinks[j].text
       /\ MapHas(lmMap, lmLinks[i].url)
       /\ \A now \in Clock :
            generateSlugTable[CatalogueIndex(lmLinks[i]), plugins, now]
              # generateSlugTable[CatalogueIndex(lmLinks[j]), plugins, now]

\* new URL(url) throws
Unparsable(url) == ~URLTable[url].ok

\* C18: every occurrence the loop has passed whose URL begins with 'http' has an
\* entry, also when the URL cannot be parsed; the slug of such an entry comes from
\* the text of the occurrence or, without a text, from 'link-' and the clock; and
\* the loop reaches the end of the list
C18_MalformedUrlStillMapped ==
  /\ \A j \in 1..Len(lmLinks) :
       (j < lmPos /\ startsWith(lmLinks[j].url, "http")) => MapHas(lmMap, lmLinks[j].url)
  /\ \A i \in 1..Len(lmMap) :
       Unparsable(lmMap[i].key)
         => /\ lmMap[i].slug # ""
            /\ (FirstOccurrence(lmMap[i].key).text \in {"", lmMap[i].key})
                 => \E now \in Clock : lmBases[i] = "link-" \o toString36(now)
  /\ lmPc \in {"returned", "done"} => lmPos = Len(lmLinks) + 1

\* a table was returned for a list with a URL that cannot be parsed followed by
\* another URL, and it has entries for both
C18_Witness ==
  /\ lmPc \in {"returned", "done"}
  /\ \E i, j \in 1..Len(lmLinks) :
       /\ i < j
       /\ Unparsable(lmLinks[i].url)
       /\ startsWith(lmLinks[i].url, "http")
       /\ lmLinks[i].text = ""
       /\ ~Unparsable(lmLinks[j].url)
       /\ MapHas(lmMap, lmLinks[i].url)
       /\ MapHas(lmMap, lmLinks[j].url)

\* the table is the one generateLinkMap returns for the occurrences the loop has
\* passed, for some readings of the clock
TableOfPrefix ==
  \E nows \in [1..(lmPos - 1) -> Clock] :
    lmMap = generateLinkMap(SubSeq(lmLinks, 1, lmPos - 1), plugins, config, nows)

\* C25: after each iteration the table is the table of the list that ends with
\* the occurrence just passed, and an iteration leaves every entry the table has,
\* its slug included, as it is and where it is: the occurrences after the first
\* occurrence of a URL do not change its slug
C25_PrefixStable ==
  /\ [](lmPc = "loop" => TableOfPrefix)
  /\ [][lmPc = "loop"
          => /\ Len(lmMap') >= Len(lmMap)
             /\ SubSeq(lmMap', 1, Len(lmMap)) = lmMap]_vars

\* a table was returned that has an entry made before an occurrence of another
\* URL with the same base slug was passed
C25_Witness ==
  /\ lmPc \in {"returned", "done"}
  /\ Len(lmMap) >= 2
  /\ \E i, j \in 1..Len(lmMap) :
       /\ i < j
       /\ lmBases[i] = lmBases[j]
       /\ lmMap[i].slug = lmBases[i]
       /\ lmMap[j].slug # lmBases[j]

\* C26: every slug of a table generateLinkMap returns is a non-empty string
C26_SlugsNonEmpty ==
  \A r \in 1..Len(lmResults) :
    \A i \in 1..Len(lmResults[r]) : lmResults[r][i].slug # ""

(***************************************************************************)
(* The transform command: scan, generateLinkMap over the external links,   *)
(* transformFiles over the links grouped by file, then, unless --dry-run,  *)
(* applyTransforms; an exception ends the command with process.exit(1).    *)
(* writeFileSync either writes the file or throws, and a call that throws  *)
(* leaves the file as it was or truncated.                                 *)
(***************************************************************************)

\* the content files, in the order the scanner finds them
FileNames == << "a.md", "b.md", "c.md" >>

FileSet == {FileNames[i] : i \in 1..Len(FileNames)}

\* the documents the files of the corpus are written from: the empty one, those
\* of one segment, one of two links, and one of an anchor and a link
CorpusDocuments ==
  {<<>>} \cup {<<SegmentCatalogue[i]>> : i \in 1..Len(SegmentCatalogue)}
         \cup {<< SegmentCatalogue[1], SegmentCatalogue[3] >>,
               << SegmentCatalogue[8], SegmentCatalogue[1] >>}

\* the loop of Scanner.scan: the occurrences of the files, in file order
RECURSIVE ScanFiles(_, _)
ScanFiles(files, corp) ==
  IF files = <<>> THEN <<>>
  ELSE LET InFile(links) == [j \in 1..Len(links) |-> [links[j] EXCEPT !.file = Head(files)]]
       IN  InFile(scanFile(corp[Head(files)])) \o ScanFiles(Tail(files), corp)

\* the loop of Scanner.scan over the files as they are on the disk
RECURSIVE ScanDisk(_, _)
ScanDisk(files, contents) ==
  IF files = <<>> THEN <<>>
  ELSE scanContent(Head(files), contents[Head(files)]) \o ScanDisk(Tail(files), contents)

\* the loop that groups the links by file, `groups` being the Map so far
RECURSIVE GroupByFile(_, _)
GroupByFile(groups, links) ==
  IF links = <<>> THEN groups
  ELSE GroupByFile(
         IF \E i \in 1..Len(groups) : groups[i].file = Head(links).file
         THEN [i \in 1..Len(groups) |->
                 IF groups[i].file = Head(links).file
                 THEN [groups[i] EXCEPT !.links = Append(@, Head(links))]
                 ELSE groups[i]]
         ELSE Append(groups, [file |-> Head(links).file, links |-> <<Head(links)>>]),
         Tail(links))

\* the for loop of transformFile over the sorted links
RECURSIVE TransformLoop(_, _, _, _, _, _, _)
TransformLoop(content, changeList, links, linkmap, pl, cfg, now) ==
  IF links = <<>> THEN [transformedContent |-> content, changes |-> changeList]
  ELSE LET Continue(it) ==
             TransformLoop(it.transformedContent, it.changes, Tail(links), linkmap, pl, cfg, now)
       IN  Continue(TransformIteration(content, changeList, Head(links), linkmap, pl, cfg, now))

\* transformFile(filePath, links, linkMap) on a file holding `content`
transformFile(filePath, content, links, linkmap, pl, cfg, now) ==
  LET Result(r) ==
        [file |-> filePath, originalContent |-> content,
         transformedContent |-> r.transformedContent,
         linksTransformed |-> Len(r.changes), changes |-> r.changes]
  IN  Result(TransformLoop(content, <<>>, sortLinks(links), linkmap, pl, cfg, now))

InitTransformCommand ==
  /\ plugins = {"amazon"}
  /\ config \in Configs
  /\ optDryRun \in BOOLEAN
  /\ exitCode = -1
  /\ cmdPc = "start"
  /\ corpus \in [FileSet -> CorpusDocuments]
  /\ disk = [f \in FileSet |-> ContentOf(corpus[f])]
  /\ resultExternalLinks = <<>>
  /\ cmdLinkMap = <<>>
  /\ fileLinks = <<>>
  /\ cmdPos = 1
  /\ transformResults = <<>>
  /\ applyPos = 1
  /\ applyCalls = 0
  /\ writeFailedAt = 0
  /\ cmdTrace = <<>>
  /\ startDisks = <<[f \in FileSet |-> ContentOf(corpus[f])]>>
  /\ LmIdle
  /\ TfIdle
  /\ StIdle
  /\ SyncIdle
  /\ ApiIdle

\* const result = await scanner.scan(), which reads the files
CmdScan ==
  /\ cmdPc = "start"
  /\ resultExternalLinks' = externalLinks(ScanDisk(FileNames, disk), config)
  /\ cmdPc' = "scanned"
  /\ cmdTrace' = Append(cmdTrace, [op |-> "scan", file |-> ""])
  /\ UNCHANGED <<optDryRun, exitCode, corpus, startDisks, disk, cmdLinkMap, fileLinks, cmdPos,
                 transformResults, applyPos, applyCalls, writeFailedAt, apiVars, cfgVars, lmVars,
                 tfVars, stVars, syncVars>>

\* CmdGenerateLinkMap leaving the slug assignment to the rewrite of each file
CmdGenerateLinkMapLater ==
  /\ cmdPc = "scanned"
  /\ cmdLinkMap' = <<>>
  /\ cmdPc' = "mapped"
  /\ cmdTrace' = Append(cmdTrace, [op |-> "generateLinkMap", file |-> ""])
  /\ UNCHANGED <<optDryRun, exitCode, corpus, startDisks, disk, resultExternalLinks, fileLinks,
                 cmdPos, transformResults, applyPos, applyCalls, writeFailedAt, apiVars, cfgVars,
                 lmVars, tfVars, stVars, syncVars>>

\* const linkMap = transformer.generateLinkMap(result.externalLinks)
CmdGenerateLinkMap ==
  /\ cmdPc = "scanned"
  /\ \E now \in Clock :
       cmdLinkMap' = generateLinkMap(resultExternalLinks, plugins, config,
                                     [i \in 1..Len(resultExternalLinks) |-> now])
  /\ cmdPc' = "mapped"
  /\ cmdTrace' = Append(cmdTrace, [op |-> "generateLinkMap", file |-> ""])
  /\ UNCHANGED <<optDryRun, exitCode, corpus, startDisks, disk, resultExternalLinks, fileLinks,
                 cmdPos, transformResults, applyPos, applyCalls, writeFailedAt, apiVars, cfgVars,
                 lmVars, tfVars, stVars, syncVars>>

\* the links are grouped by file and transformFiles is called
CmdGroup ==
  /\ cmdPc = "mapped"
  /\ fileLinks' = GroupByFile(<<>>, resultExternalLinks)
  /\ cmdPos' = 1
  /\ transformResults' = <<>>
  /\ cmdPc' = "transforming"
  /\ UNCHANGED <<optDryRun, exitCode, corpus, disk, resultExternalLinks, cmdLinkMap, applyPos,
                 applyCalls, writeFailedAt, cmdTrace, startDisks, apiVars, cfgVars, lmVars, tfVars,
                 stVars, syncVars>>

\* one iteration of the loop of transformFiles
CmdTransformFile ==
  /\ cmdPc = "transforming"
  /\ cmdPos <= Len(fileLinks)
  /\ \E now \in Clock :
       \E result \in {transformFile(fileLinks[cmdPos].file, disk[fileLinks[cmdPos].file],
                                    fileLinks[cmdPos].links, cmdLinkMap, plugins, config, now)} :
         transformResults' = IF result.linksTransformed > 0
                             THEN Append(transformResults, result)
                             ELSE transformResults
  /\ cmdPos' = cmdPos + 1
  /\ cmdTrace' = Append(cmdTrace, [op |-> "transformFile", file |-> fileLinks[cmdPos].file])
  /\ UNCHANGED <<optDryRun, exitCode, cmdPc, corpus, startDisks, disk, resultExternalLinks,
                 cmdLinkMap, fileLinks, applyPos, applyCalls, writeFailedAt, apiVars, cfgVars,
                 lmVars, tfVars, stVars, syncVars>>

\* CmdBranch calling applyTransforms whatever the option
CmdBranchAlwaysApplies ==
  /\ cmdPc = "transforming"
  /\ cmdPos > Len(fileLinks)
  /\ cmdPc' = "applying"
  /\ applyCalls' = applyCalls + 1
  /\ applyPos' = 1
  /\ UNCHANGED <<optDryRun, exitCode, corpus, disk, resultExternalLinks, cmdLinkMap, fileLinks,
                 cmdPos, transformResults, writeFailedAt, cmdTrace, startDisks, apiVars, cfgVars,
                 lmVars, tfVars, stVars, syncVars>>

\* transformFiles has returned: if (options.dryRun) ... else applyTransforms(...)
CmdBranch ==
  /\ cmdPc = "transforming"
  /\ cmdPos > Len(fileLinks)
  /\ cmdPc' = IF optDryRun THEN "reporting" ELSE "applying"
  /\ applyCalls' = IF optDryRun THEN applyCalls ELSE applyCalls + 1
  /\ applyPos' = 1
  /\ UNCHANGED <<optDryRun, exitCode, corpus, disk, resultExternalLinks, cmdLinkMap, fileLinks,
                 cmdPos, transformResults, writeFailedAt, cmdTrace, startDisks, apiVars, cfgVars,
                 lmVars, tfVars, stVars, syncVars>>

\* CmdWrite writing the content the file had when it was read
CmdWriteKeepsOriginal ==
  /\ cmdPc = "applying"
  /\ applyPos <= Len(transformResults)
  /\ disk' = [disk EXCEPT ![transformResults[applyPos].file] =
                            transformResults[applyPos].originalContent]
  /\ applyPos' = applyPos + 1
  /\ cmdTrace' = Append(cmdTrace, [op |-> "writeFileSync", file |-> transformResults[applyPos].file])
  /\ UNCHANGED <<optDryRun, exitCode, cmdPc, corpus, startDisks, resultExternalLinks, cmdLinkMap,
                 fileLinks, cmdPos, transformResults, applyCalls, writeFailedAt, apiVars, cfgVars,
                 lmVars, tfVars, stVars, syncVars>>

\* CmdWrite with the exception of writeFileSync swallowed
CmdWriteContinues ==
  /\ cmdPc = "applying"
  /\ applyPos <= Len(transformResults)
  /\ \E ok \in BOOLEAN :
       IF ok
       THEN /\ disk' = [disk EXCEPT ![transformResults[applyPos].file] =
                                       transformResults[applyPos].transformedContent]
            /\ UNCHANGED writeFailedAt
       ELSE /\ disk' \in {disk, [disk EXCEPT ![transformResults[applyPos].file] = ""]}
            /\ writeFailedAt' = applyPos
  /\ applyPos' = applyPos + 1
  /\ cmdTrace' = Append(cmdTrace, [op |-> "writeFileSync", file |-> transformResults[applyPos].file])
  /\ UNCHANGED <<optDryRun, exitCode, cmdPc, corpus, startDisks, resultExternalLinks, cmdLinkMap,
                 fileLinks, cmdPos, transformResults, applyCalls, apiVars, cfgVars, lmVars, tfVars,
                 stVars, syncVars>>

\* one iteration of the loop of applyTransforms: writeFileSync writes the file,
\* or throws, and the command catches the exception and exits with status 1
CmdWrite ==
  /\ cmdPc = "applying"
  /\ applyPos <= Len(transformResults)
  /\ \E ok \in BOOLEAN :
       IF ok
       THEN /\ disk' = [disk EXCEPT ![transformResults[applyPos].file] =
                                       transformResults[applyPos].transformedContent]
            /\ applyPos' = applyPos + 1
            /\ UNCHANGED <<cmdPc, exitCode, writeFailedAt>>
       ELSE /\ disk' \in {disk, [disk EXCEPT ![transformResults[applyPos].file] = ""]}
            /\ writeFailedAt' = applyPos
            /\ cmdPc' = "failed"
            /\ exitCode' = 1
            /\ UNCHANGED applyPos
  /\ cmdTrace' = Append(cmdTrace, [op |-> "writeFileSync", file |-> transformResults[applyPos].file])
  /\ UNCHANGED <<optDryRun, corpus, startDisks, resultExternalLinks, cmdLinkMap, fileLinks, cmdPos,
                 transformResults, applyCalls, apiVars, cfgVars, lmVars, tfVars, stVars, syncVars>>

\* applyTransforms returns
CmdApplied ==
  /\ cmdPc = "applying"
  /\ applyPos > Len(transformResults)
  /\ cmdPc' = "reporting"
  /\ UNCHANGED <<optDryRun, exitCode, corpus, disk, resultExternalLinks, cmdLinkMap, fileLinks,
                 cmdPos, transformResults, applyPos, applyCalls, writeFailedAt, cmdTrace,
                 startDisks, apiVars, cfgVars, lmVars, tfVars, stVars, syncVars>>

\* the results are printed and the command ends
CmdReport ==
  /\ cmdPc = "reporting"
  /\ cmdPc' = "done"
  /\ exitCode' = 0
  /\ UNCHANGED <<optDryRun, corpus, disk, resultExternalLinks, cmdLinkMap, fileLinks, cmdPos,
                 transformResults, applyPos, applyCalls, writeFailedAt, cmdTrace, startDisks,
                 apiVars, cfgVars, lmVars, tfVars, stVars, syncVars>>

\* the most runs of the command in a row
MaxCmdRuns == 2

\* the command is run again after a run that wrote its results: a new process,
\* whose locals start afresh, on the files as the run before left them
CmdAgain ==
  /\ cmdPc = "done"
  /\ ~optDryRun
  /\ Len(startDisks) < MaxCmdRuns
  /\ startDisks' = Append(startDisks, disk)
  /\ cmdPc' = "start"
  /\ exitCode' = -1
  /\ resultExternalLinks' = <<>>
  /\ cmdLinkMap' = <<>>
  /\ fileLinks' = <<>>
  /\ cmdPos' = 1
  /\ transformResults' = <<>>
  /\ applyPos' = 1
  /\ applyCalls' = 0
  /\ writeFailedAt' = 0
  /\ cmdTrace' = <<>>
  /\ UNCHANGED <<optDryRun, corpus, disk, apiVars, cfgVars, lmVars, tfVars, stVars, syncVars>>

NextTransformCommand ==
  \/ CmdScan
  \/ CmdGenerateLinkMap
  \/ CmdGroup
  \/ CmdTransformFile
  \/ CmdBranch
  \/ CmdWrite
  \/ CmdApplied
  \/ CmdReport
  \/ CmdAgain

SpecTransformCommand == InitTransformCommand /\ [][NextTransformCommand]_vars

(***************************************************************************)
(* Properties of the transform command                                     *)
(***************************************************************************)

\* the content of the files when the run of the command started
InitialDisk == startDisks[Len(startDisks)]

\* the positions in cmdTrace of the calls of `op`
CallsOf(op) == {i \in 1..Len(cmdTrace) : cmdTrace[i].op = op}

\* C12: as long as the command only computes rewrite results, and throughout a
\* run with --dry-run, no file is written and applyTransforms is not called
C12_ComputingNeverWrites ==
  (optDryRun \/ cmdPc \in {"start", "scanned", "mapped", "transforming"})
    => /\ disk = InitialDisk
       /\ applyCalls = 0
       /\ CallsOf("writeFileSync") = {}

\* a dry run has ended with rewrite results for every file
C12_Witness ==
  /\ optDryRun
  /\ cmdPc = "done"
  /\ Len(transformResults) = Len(FileNames)
  /\ \A i \in 1..Len(transformResults) :
       transformResults[i].transformedContent # disk[transformResults[i].file]

\* C14: generateLinkMap is called before the first transformFile and never after
\* it, no rewrite takes a slug that is not in the link map, and every file's
\* transformFile comes before the first writeFileSync
C14_AssignmentThenRewritesThenWrites ==
  /\ \A i \in CallsOf("transformFile") :
       /\ \E k \in CallsOf("generateLinkMap") : k < i
       /\ \A k \in CallsOf("generateLinkMap") : k < i
  /\ \A i \in 1..Len(transformResults) :
       \A j \in 1..Len(transformResults[i].changes) :
         /\ MapHas(cmdLinkMap, transformResults[i].changes[j].original)
         /\ MapGet(cmdLinkMap, transformResults[i].changes[j].original).slug
              = transformResults[i].changes[j].slug
  /\ \A i \in CallsOf("writeFileSync") :
       /\ Cardinality({k \in CallsOf("transformFile") : k < i}) = Len(fileLinks)
       /\ \A k \in CallsOf("transformFile") : k < i

\* the command has rewritten and written every file
C14_Witness ==
  /\ cmdPc = "done"
  /\ Cardinality(CallsOf("transformFile")) = Len(FileNames)
  /\ Cardinality(CallsOf("writeFileSync")) = Len(FileNames)

\* C15: once a writeFileSync has thrown, the command has ended with status 1,
\* that call is the last the command made, the files of the results before it hold
\* their rewritten content and the files of the results after it were not written
C15_WriteFailureAborts ==
  writeFailedAt # 0 =>
    /\ cmdPc = "failed"
    /\ exitCode = 1
    /\ SetMax(CallsOf("writeFileSync")) = Len(cmdTrace)
    /\ Cardinality(CallsOf("writeFileSync")) = writeFailedAt
    /\ \A j \in 1..Len(transformResults) :
         /\ j < writeFailedAt
              => disk[transformResults[j].file] = transformResults[j].transformedContent
         /\ j > writeFailedAt
              => disk[transformResults[j].file] = InitialDisk[transformResults[j].file]

\* the second of three writes has failed
C15_Witness ==
  /\ writeFailedAt = 2
  /\ Len(transformResults) = 3
  /\ cmdPc = "failed"
  /\ disk[transformResults[1].file] # InitialDisk[transformResults[1].file]

\* `content` with every match of the pattern of a change replaced, the matches
\* being looked for in `content` alone, from its i-th character on
RECURSIVE SubstituteOnce(_, _, _)
SubstituteOnce(content, changeList, i) ==
  IF i > Len(content) THEN ""
  ELSE LET Matching == {k \in 1..Len(changeList) :
                          TokensMatchAt(content, urlPatternTable[changeList[k].original], i)}
           Take(k) == "](" \o changeList[k].trackingUrl \o ")"
                      \o SubstituteOnce(content, changeList,
                                        i + Len(urlPatternTable[changeList[k].original]))
       IN  IF Matching = {} THEN CharAt(content, i) \o SubstituteOnce(content, changeList, i + 1)
           ELSE Take(SetMin(Matching))

\* the command runs on files that an earlier run of it has written
SecondPass == Len(startDisks) >= 2

\* C27: with a relative base path, a run of the command on files that an
\* earlier run has written makes no change entry, keeps no result and writes no
\* file, and in every run each result's content is the original content with
\* the matches found in the original replaced, each URL changed once
C27_SecondPassChangesNothing ==
  ~startsWith(config.baseUrl, "http")
    => /\ SecondPass => /\ transformResults = <<>>
                        /\ CallsOf("writeFileSync") = {}
                        /\ disk = InitialDisk
       /\ \A i \in 1..Len(transformResults) :
            /\ transformResults[i].transformedContent
                 = SubstituteOnce(transformResults[i].originalContent,
                                  transformResults[i].changes, 1)
            /\ \A j, k \in 1..Len(transformResults[i].changes) :
                 transformResults[i].changes[j].original
                   = transformResults[i].changes[k].original => j = k

\* a second run has ended, on files of which the first run changed two, having
\* called transformFile for an external link that the first run left in place
C27_Witness ==
  /\ SecondPass
  /\ cmdPc = "done"
  /\ ~startsWith(config.baseUrl, "http")
  /\ Cardinality({f \in FileSet : startDisks[1][f] # startDisks[2][f]}) >= 2
  /\ CallsOf("transformFile") # {}
  /\ \E i \in 1..Len(resultExternalLinks) : startsWith(resultExternalLinks[i].url, "http")

(***************************************************************************)
(* The storage adapters.  The flat file is modelled by the JSON array it   *)
(* holds.  An upsertLinks call of the file adapter runs up to its await    *)
(* (getLinks has read the file by then) when it is called, and the rest    *)
(* when the event loop resumes it; suspended calls resume oldest first.    *)
(***************************************************************************)

\* how many upsertLinks calls are made
MaxCalls == 2

\* the longest batch
MaxBatch == 1

\* the AffiliateLink records the batches are made of
StoreLinks ==
  {[slug |-> "a", name |-> "A", url |-> "https://a.co/x", is_affiliate |-> FALSE, network |-> ""],
   [slug |-> "a", name |-> "A", url |-> "https://a.co/y", is_affiliate |-> FALSE, network |-> ""],
   [slug |-> "b", name |-> "B", url |-> "https://b.co/x", is_affiliate |-> FALSE, network |-> ""]}

Batches == UNION {[1..n -> StoreLinks] : n \in 0..MaxBatch}

SlugsOf(links) == {links[i].slug : i \in 1..Len(links)}

\* MapSetBySlug keeping the record the Map already has for the slug
MapSetBySlugOldWins(values, link) ==
  IF link.slug \in SlugsOf(values) THEN values ELSE Append(values, link)

\* MapSetBySlug putting a record with a new slug before the records the Map has
MapSetBySlugPrepends(values, link) ==
  IF link.slug \in SlugsOf(values)
  THEN [i \in 1..Len(values) |-> IF values[i].slug = link.slug THEN link ELSE values[i]]
  ELSE <<link>> \o values

\* existingMap.set(link.slug, link) on the Map kept as the sequence of its values
MapSetBySlug(values, link) ==
  IF link.slug \in SlugsOf(values)
  THEN [i \in 1..Len(values) |-> IF values[i].slug = link.slug THEN link ELSE values[i]]
  ELSE Append(values, link)

\* MergeBySlug adding every record at the end, whatever the slugs held
MergeBySlugAppends(existing, links) == existing \o links

\* the values of the Map made of `existing` after each link of `links` is set
RECURSIVE MergeBySlug(_, _)
MergeBySlug(existing, links) ==
  IF links = <<>> THEN existing
  ELSE MergeBySlug(MapSetBySlug(existing, Head(links)), Tail(links))

\* FileSystemAdapter.getLinkBySlug on a file holding `links`: <<the record>>, <<>> for null
getLinkBySlug(links, slug) ==
  IF \E i \in 1..Len(links) : links[i].slug = slug
  THEN <<links[SetMin({i \in 1..Len(links) : links[i].slug = slug})]>>
  ELSE <<>>

\* FileSystemAdapter.getLinks
FsGetLinks == IF fsFile.exists THEN fsFile.links ELSE <<>>

InitStore ==
  /\ plugins = {}
  /\ config \in {c \in Configs : ~c.amazonEnabled}
  /\ adapter \in {"json", "supabase"}
  /\ fsFile \in {[exists |-> FALSE, links |-> <<>>]}
                \cup {[exists |-> TRUE, links |-> b] : b \in {<<>>} \cup [1..1 -> StoreLinks]}
  /\ sbTable \in {<<>>} \cup [1..1 -> StoreLinks]
  /\ fsPending = <<>>
  /\ fsWrites = 0
  /\ fsDone = <<>>
  /\ upserted = {}
  /\ stCalls = 0
  /\ sbRequests = 0
  /\ sbFailed = FALSE
  /\ LmIdle
  /\ TfIdle
  /\ CliIdle
  /\ ApiIdle

\* FileSystemAdapter.upsertLinks(links) is called: it runs to its await
FsUpsertCall ==
  /\ adapter = "json"
  /\ stCalls < MaxCalls
  /\ \E links \in Batches :
       /\ fsPending' = Append(fsPending, [existing |-> FsGetLinks, links |-> links])
       /\ upserted' = upserted \cup SlugsOf(links)
  /\ stCalls' = stCalls + 1
  /\ UNCHANGED <<adapter, fsFile, fsWrites, fsDone, sbTable, sbRequests, sbFailed, apiVars,
                 cfgVars, cliVars, lmVars, tfVars>>

\* the oldest suspended upsertLinks call resumes: it merges and writes the file
FsUpsertResume ==
  /\ fsPending # <<>>
  /\ fsFile' = [exists |-> TRUE,
                links  |-> MergeBySlug(Head(fsPending).existing, Head(fsPending).links)]
  /\ fsWrites' = fsWrites + 1
  /\ fsDone' = <<Head(fsPending)>>
  /\ fsPending' = Tail(fsPending)
  /\ UNCHANGED <<adapter, upserted, stCalls, sbTable, sbRequests, sbFailed, apiVars, cfgVars,
                 cliVars, lmVars, tfVars>>

\* SupabaseAdapter.upsertLinks(links): nothing for an empty batch, else one
\* POST that the store answers by merging the rows by slug, or with an error
SbUpsert ==
  /\ adapter = "supabase"
  /\ stCalls < MaxCalls
  /\ \E links \in Batches, ok \in BOOLEAN :
       /\ upserted' = upserted \cup SlugsOf(links)
       /\ IF links = <<>>
          THEN UNCHANGED <<sbTable, sbRequests, sbFailed>>
          ELSE /\ sbRequests' = sbRequests + 1
               /\ sbTable' = IF ok THEN MergeBySlug(sbTable, links) ELSE sbTable
               /\ sbFailed' = (sbFailed \/ ~ok)
  /\ stCalls' = stCalls + 1
  /\ UNCHANGED <<adapter, fsFile, fsPending, fsWrites, fsDone, apiVars, cfgVars, cliVars, lmVars,
                 tfVars>>

NextStore == FsUpsertCall \/ FsUpsertResume \/ SbUpsert

SpecStore == InitStore /\ [][NextStore]_vars

(***************************************************************************)
(* Properties of the storage adapters                                      *)
(***************************************************************************)

\* this step is an upsertLinks call, of either adapter, with an empty batch
\* (of the file adapter: the part of the call after its await)
EmptyUpsertStep ==
  \/ fsPending # <<>> /\ Head(fsPending).links = <<>> /\ fsPending' = Tail(fsPending)
  \/ adapter = "supabase" /\ stCalls' = stCalls + 1 /\ sbRequests' = sbRequests
     /\ sbTable' = sbTable /\ sbFailed' = sbFailed

\* C9: upserting an empty batch performs no write and no request and leaves
\* the store as it was, the existence of the flat file included
C9_EmptyUpsertIsNoOp ==
  [][EmptyUpsertStep =>
       /\ fsWrites' = fsWrites
       /\ fsFile' = fsFile
       /\ sbRequests' = sbRequests
       /\ sbTable' = sbTable]_vars

\* C10: when all the upsertLinks calls started on the flat file have completed,
\* the file holds every slug of every batch
C10_NoLostUpdate ==
  (adapter = "json" /\ fsPending = <<>> /\ stCalls > 0) => upserted \subseteq SlugsOf(fsFile.links)

\* the record of the batch for the slug: the last one, should the batch have several
BatchRecord(links, slug) == links[SetMax({i \in 1..Len(links) : links[i].slug = slug})]

\* C11: after an upsertLinks(batch) on the flat file has completed, getLinkBySlug
\* returns the batch's record, whole, for every slug of the batch, and for every
\* other slug what it returned when the call was made
C11_NewValueWinsPerRecord ==
  \A k \in 1..Len(fsDone) :
    /\ \A s \in SlugsOf(fsDone[k].links) :
          getLinkBySlug(fsFile.links, s) = <<BatchRecord(fsDone[k].links, s)>>
    /\ \A s \in {r.slug : r \in StoreLinks} \ SlugsOf(fsDone[k].links) :
          getLinkBySlug(fsFile.links, s) = getLinkBySlug(fsDone[k].existing, s)

\* a record of slug 'a' was replaced by a batch's record of another url, next to
\* a record of slug 'b' that stayed
C11_Witness ==
  /\ fsDone # <<>>
  /\ \E i \in 1..Len(fsDone[1].existing), j \in 1..Len(fsDone[1].links) :
        /\ fsDone[1].existing[i].slug = fsDone[1].links[j].slug
        /\ fsDone[1].existing[i].url # fsDone[1].links[j].url
        /\ getLinkBySlug(fsFile.links, fsDone[1].links[j].slug) = <<fsDone[1].links[j]>>
  /\ \E i \in 1..Len(fsDone[1].existing) :
        /\ fsDone[1].existing[i].slug \notin SlugsOf(fsDone[1].links)
        /\ getLinkBySlug(fsFile.links, fsDone[1].existing[i].slug) = <<fsDone[1].existing[i]>>

\* the slugs of the batch that the array `existing` lacks, in the order in which
\* the batch has them first
RECURSIVE NewSlugsInOrder(_, _)
NewSlugsInOrder(existing, links) ==
  IF links = <<>> THEN <<>>
  ELSE IF Head(links).slug \in SlugsOf(existing)
       THEN NewSlugsInOrder(existing, Tail(links))
       ELSE <<Head(links).slug>>
            \o NewSlugsInOrder(existing,
                               SelectSeq(Tail(links), LAMBDA l : l.slug # Head(links).slug))

\* C28: the array in the flat file has at most one record per slug; after an
\* upsertLinks has completed, the slugs of the array it read are where they were,
\* in the same order, and the slugs it did not read follow them, in the order of
\* the batch
C28_OneRecordPerSlugInOrder ==
  /\ Cardinality(SlugsOf(fsFile.links)) = Len(fsFile.links)
  /\ \A k \in 1..Len(fsDone) :
       [i \in 1..Len(fsFile.links) |-> fsFile.links[i].slug]
         = [i \in 1..Len(fsDone[k].existing) |-> fsDone[k].existing[i].slug]
           \o NewSlugsInOrder(fsDone[k].existing, fsDone[k].links)

\* an upsertLinks that read a record has written a record of a new slug after it
C28_Witness ==
  /\ fsDone # <<>>
  /\ fsDone[1].existing # <<>>
  /\ Len(fsFile.links) > Len(fsDone[1].existing)
  /\ fsFile.links[1].slug = fsDone[1].existing[1].slug
  /\ fsFile.links[Len(fsFile.links)].slug \notin SlugsOf(fsDone[1].existing)


(***************************************************************************)
(* The sync command: scan, generateLinkMap over the external links, the    *)
(* listing of the store, the partition of the computed records into new    *)
(* and updated, then, unless --dry-run, one upsertLinks of all of them.    *)
(* A call of the adapter returns or throws; an exception ends the command  *)
(* with process.exit(1).  The command awaits each call, so that the        *)
(* upsertLinks of the file adapter runs whole before the command goes on.  *)
(***************************************************************************)

\* the records the store may hold when the command starts
PersistedLinks ==
  << [slug |-> "buy", name |-> "Old", url |-> "https://old.co/", is_affiliate |-> FALSE,
      network |-> ""],
     [slug |-> "zz", name |-> "Z", url |-> "https://z.co/", is_affiliate |-> FALSE,
      network |-> ""] >>

StoreContents == {SubSeq(PersistedLinks, 1, n) : n \in 0..Len(PersistedLinks)}

\* Array.from(linkMap.values())
ValuesOf(map) ==
  [i \in 1..Len(map) |->
     [slug |-> map[i].slug, name |-> map[i].name, url |-> map[i].url,
      is_affiliate |-> map[i].is_affiliate, network |-> map[i].network]]

\* updatedLinksOf taking every computed record as updated
updatedLinksOfAll(links, existing) == links

\* links.filter(l => !existingSlugs.has(l.slug))
newLinksOf(links, existing) == SelectSeq(links, LAMBDA l : l.slug \notin SlugsOf(existing))

\* links.filter(l => existingSlugs.has(l.slug))
updatedLinksOf(links, existing) == SelectSeq(links, LAMBDA l : l.slug \in SlugsOf(existing))

InitSync ==
  /\ plugins = {"amazon"}
  /\ config \in Configs
  /\ optDryRun \in BOOLEAN
  /\ exitCode = -1
  /\ corpus \in [FileSet -> CorpusDocuments]
  /\ disk = [f \in FileSet |-> ContentOf(corpus[f])]
  /\ adapter \in {"json", "supabase"}
  /\ \E held \in StoreContents :
       /\ fsFile \in IF adapter = "json"
                     THEN {[exists |-> TRUE, links |-> held]}
                          \cup (IF held = <<>> THEN {[exists |-> FALSE, links |-> <<>>]} ELSE {})
                     ELSE {[exists |-> FALSE, links |-> <<>>]}
       /\ sbTable = IF adapter = "supabase" THEN held ELSE <<>>
  /\ fsPending = <<>>
  /\ fsWrites = 0
  /\ fsDone = <<>>
  /\ upserted = {}
  /\ stCalls = 0
  /\ sbRequests = 0
  /\ sbFailed = FALSE
  /\ cmdPc = "start"
  /\ resultExternalLinks = <<>>
  /\ cmdLinkMap = <<>>
  /\ fileLinks = <<>>
  /\ cmdPos = 1
  /\ transformResults = <<>>
  /\ applyPos = 1
  /\ applyCalls = 0
  /\ writeFailedAt = 0
  /\ cmdTrace = <<>>
  /\ startDisks = <<>>
  /\ SyncIdle
  /\ LmIdle
  /\ TfIdle
  /\ ApiIdle

\* const result = await scanner.scan()
SyncScan ==
  /\ syncPc = "start"
  /\ resultExternalLinks' = externalLinks(ScanFiles(FileNames, corpus), config)
  /\ syncPc' = "scanned"
  /\ UNCHANGED <<syncLinks, existingLinks, newLinks, updatedLinks, getLinksCalls, failedOp,
                 syncReport, optDryRun, exitCode, cmdPc, corpus, disk, cmdLinkMap, fileLinks,
                 cmdPos, transformResults, applyPos, applyCalls, writeFailedAt, cmdTrace,
                 startDisks, apiVars, cfgVars, lmVars, tfVars, stVars>>

\* linkMap = transformer.generateLinkMap(result.externalLinks), links = its values
SyncGenerateLinkMap ==
  /\ syncPc = "scanned"
  /\ \E now \in Clock :
       \E map \in {generateLinkMap(resultExternalLinks, plugins, config,
                                   [i \in 1..Len(resultExternalLinks) |-> now])} :
         /\ cmdLinkMap' = map
         /\ syncLinks' = ValuesOf(map)
  /\ syncPc' = "mapped"
  /\ UNCHANGED <<existingLinks, newLinks, updatedLinks, getLinksCalls, failedOp, syncReport,
                 optDryRun, exitCode, cmdPc, corpus, disk, resultExternalLinks, fileLinks, cmdPos,
                 transformResults, applyPos, applyCalls, writeFailedAt, cmdTrace, startDisks,
                 apiVars, cfgVars, lmVars, tfVars, stVars>>


\* SyncGetLinks taking a failed listing for an empty store
SyncGetLinksIgnoresFailure ==
  /\ syncPc = "mapped"
  /\ getLinksCalls' = getLinksCalls + 1
  /\ sbRequests' = IF adapter = "supabase" THEN sbRequests + 1 ELSE sbRequests
  /\ \E ok \in BOOLEAN :
       /\ (adapter = "json" /\ ~fsFile.exists) => ok
       /\ existingLinks' = IF ~ok THEN <<>> ELSE IF adapter = "json" THEN FsGetLinks ELSE sbTable
       /\ failedOp' = IF ok THEN failedOp ELSE "getLinks"
  /\ syncPc' = "fetched"
  /\ UNCHANGED <<syncLinks, newLinks, updatedLinks, syncReport, optDryRun, exitCode, cmdPc, corpus,
                 disk, resultExternalLinks, cmdLinkMap, fileLinks, cmdPos, transformResults,
                 applyPos, applyCalls, writeFailedAt, cmdTrace, startDisks, adapter, fsFile,
                 fsPending, fsWrites, fsDone, upserted, stCalls, sbTable, sbFailed, apiVars,
                 cfgVars, lmVars, tfVars>>

\* const existingLinks = await adapter.getLinks(): the file adapter reads the file
\* (an absent file is the empty list), the remote adapter sends a request; either
\* returns the records or throws
SyncGetLinks ==
  /\ syncPc = "mapped"
  /\ getLinksCalls' = getLinksCalls + 1
  /\ sbRequests' = IF adapter = "supabase" THEN sbRequests + 1 ELSE sbRequests
  /\ \E ok \in BOOLEAN :
       /\ (adapter = "json" /\ ~fsFile.exists) => ok
       /\ IF ok
          THEN /\ existingLinks' = IF adapter = "json" THEN FsGetLinks ELSE sbTable
               /\ syncPc' = "fetched"
               /\ UNCHANGED <<failedOp, exitCode>>
          ELSE /\ failedOp' = "getLinks"
               /\ syncPc' = "failed"
               /\ exitCode' = 1
               /\ UNCHANGED existingLinks
  /\ UNCHANGED <<syncLinks, newLinks, updatedLinks, syncReport, optDryRun, cmdPc, corpus, disk,
                 resultExternalLinks, cmdLinkMap, fileLinks, cmdPos, transformResults, applyPos,
                 applyCalls, writeFailedAt, cmdTrace, startDisks, adapter, fsFile, fsPending,
                 fsWrites, fsDone, upserted, stCalls, sbTable, sbFailed, apiVars, cfgVars, lmVars,
                 tfVars>>

\* existingSlugs, newLinks and updatedLinks are computed
SyncPartition ==
  /\ syncPc = "fetched"
  /\ newLinks' = newLinksOf(syncLinks, existingLinks)
  /\ updatedLinks' = updatedLinksOf(syncLinks, existingLinks)
  /\ syncPc' = "partitioned"
  /\ UNCHANGED <<syncLinks, existingLinks, getLinksCalls, failedOp, syncReport, optDryRun,
                 exitCode, cmdPc, corpus, disk, resultExternalLinks, cmdLinkMap, fileLinks, cmdPos,
                 transformResults, applyPos, applyCalls, writeFailedAt, cmdTrace, startDisks,
                 apiVars, cfgVars, lmVars, tfVars, stVars>>

\* await adapter.upsertLinks(links), which returns (ok) or throws
SyncUpsert(ok) ==
  /\ stCalls' = stCalls + 1
  /\ upserted' = upserted \cup SlugsOf(syncLinks)
  /\ (adapter = "supabase" /\ syncLinks = <<>>) => ok
  /\ IF adapter = "json"
     THEN /\ fsFile' = IF ok THEN [exists |-> TRUE, links |-> MergeBySlug(FsGetLinks, syncLinks)]
                       ELSE fsFile
          /\ fsWrites' = IF ok THEN fsWrites + 1 ELSE fsWrites
          /\ fsDone' = IF ok THEN <<[existing |-> FsGetLinks, links |-> syncLinks]>> ELSE fsDone
          /\ UNCHANGED <<sbTable, sbRequests, sbFailed>>
     ELSE /\ sbRequests' = IF syncLinks = <<>> THEN sbRequests ELSE sbRequests + 1
          /\ sbTable' = IF ok THEN MergeBySlug(sbTable, syncLinks) ELSE sbTable
          /\ sbFailed' = (sbFailed \/ ~ok)
          /\ UNCHANGED <<fsFile, fsWrites, fsDone>>
  /\ syncPc' = IF ok THEN "reporting" ELSE "failed"
  /\ failedOp' = IF ok THEN failedOp ELSE "upsertLinks"
  /\ exitCode' = IF ok THEN exitCode ELSE 1

\* SyncBranch calling upsertLinks whatever the option
SyncBranchAlwaysUpserts ==
  /\ syncPc = "partitioned"
  /\ \E ok \in BOOLEAN : SyncUpsert(ok)
  /\ UNCHANGED <<syncLinks, existingLinks, newLinks, updatedLinks, getLinksCalls, syncReport,
                 optDryRun, cmdPc, corpus, disk, resultExternalLinks, cmdLinkMap, fileLinks,
                 cmdPos, transformResults, applyPos, applyCalls, writeFailedAt, cmdTrace,
                 startDisks, adapter, fsPending, apiVars, cfgVars, lmVars, tfVars>>

\* if (options.dryRun) ... else await adapter.upsertLinks(links)
SyncBranch ==
  /\ syncPc = "partitioned"
  /\ IF optDryRun
     THEN /\ syncPc' = "reporting"
          /\ UNCHANGED <<failedOp, exitCode, stCalls, upserted, fsFile, fsWrites, fsDone,
                         sbTable, sbRequests, sbFailed>>
     ELSE \E ok \in BOOLEAN : SyncUpsert(ok)
  /\ UNCHANGED <<syncLinks, existingLinks, newLinks, updatedLinks, getLinksCalls, syncReport,
                 optDryRun, cmdPc, corpus, disk, resultExternalLinks, cmdLinkMap, fileLinks,
                 cmdPos, transformResults, applyPos, applyCalls, writeFailedAt, cmdTrace,
                 startDisks, adapter, fsPending, apiVars, cfgVars, lmVars, tfVars>>

\* the results are printed and the command ends
SyncReport ==
  /\ syncPc = "reporting"
  /\ syncReport' = Append(syncReport, [totalLinks |-> Len(syncLinks),
                                       newLinks |-> Len(newLinks),
                                       updatedLinks |-> Len(updatedLinks)])
  /\ syncPc' = "done"
  /\ exitCode' = 0
  /\ UNCHANGED <<syncLinks, existingLinks, newLinks, updatedLinks, getLinksCalls, failedOp,
                 optDryRun, cmdPc, corpus, disk, resultExternalLinks, cmdLinkMap, fileLinks,
                 cmdPos, transformResults, applyPos, applyCalls, writeFailedAt, cmdTrace,
                 startDisks, apiVars, cfgVars, lmVars, tfVars, stVars>>

\* the most runs of the command in a row
MaxSyncRuns == 2

\* the command is run again after a run that synced: a new process, whose locals
\* and counters start afresh, on the corpus, the configuration and the store as
\* the run before left them; the reports printed so far stay on the terminal
SyncAgain ==
  /\ syncPc = "done"
  /\ ~optDryRun
  /\ Len(syncReport) < MaxSyncRuns
  /\ syncPc' = "start"
  /\ syncLinks' = <<>>
  /\ existingLinks' = <<>>
  /\ newLinks' = <<>>
  /\ updatedLinks' = <<>>
  /\ getLinksCalls' = 0
  /\ exitCode' = -1
  /\ resultExternalLinks' = <<>>
  /\ cmdLinkMap' = <<>>
  /\ fsWrites' = 0
  /\ fsDone' = <<>>
  /\ upserted' = {}
  /\ stCalls' = 0
  /\ sbRequests' = 0
  /\ UNCHANGED <<failedOp, syncReport, optDryRun, cmdPc, corpus, disk, fileLinks, cmdPos,
                 transformResults, applyPos, applyCalls, writeFailedAt, cmdTrace, startDisks,
                 adapter, fsFile, fsPending, sbTable, sbFailed, apiVars, cfgVars, lmVars, tfVars>>

NextSync ==
  \/ SyncScan
  \/ SyncGenerateLinkMap
  \/ SyncGetLinks
  \/ SyncPartition
  \/ SyncBranch
  \/ SyncReport
  \/ SyncAgain

SpecSync == InitSync /\ [][NextSync]_vars

(***************************************************************************)
(* Properties of the sync command                                          *)
(***************************************************************************)

\* the set of the elements of a sequence
Range(seq) == {seq[i] : i \in 1..Len(seq)}

\* C13: no step of a run with --dry-run calls upsertLinks or changes the store,
\* and the run ends having reported the sizes of the new/updated partition
C13_DryRunNeverUpserts ==
  /\ [][optDryRun => /\ stCalls' = stCalls
                     /\ fsFile' = fsFile
                     /\ fsWrites' = fsWrites
                     /\ sbTable' = sbTable]_vars
  /\ []((optDryRun /\ syncPc = "done")
          => syncReport = <<[totalLinks |-> Len(syncLinks),
                             newLinks |-> Cardinality({i \in 1..Len(syncLinks) :
                                            syncLinks[i].slug \notin SlugsOf(existingLinks)}),
                             updatedLinks |-> Cardinality({i \in 1..Len(syncLinks) :
                                                syncLinks[i].slug \in SlugsOf(existingLinks)})]>>)

\* a dry run has ended on a store holding a record, with new and updated records
C13_Witness ==
  /\ optDryRun
  /\ syncPc = "done"
  /\ newLinks # <<>>
  /\ updatedLinks # <<>>
  /\ (IF adapter = "json" THEN fsFile.links ELSE sbTable) # <<>>

\* C19: once the partition is computed, newLinks holds exactly the computed
\* records whose slug the snapshot lacks and updatedLinks exactly those whose slug
\* it has, no record is in both and every record is in one; the snapshot was read
\* before any upsertLinks
C19_PartitionBySlug ==
  /\ syncPc \in {"partitioned", "reporting", "done"}
       => /\ Range(newLinks) = {r \in Range(syncLinks) : r.slug \notin SlugsOf(existingLinks)}
          /\ Range(updatedLinks) = {r \in Range(syncLinks) : r.slug \in SlugsOf(existingLinks)}
          /\ Range(newLinks) \cap Range(updatedLinks) = {}
          /\ Len(newLinks) + Len(updatedLinks) = Len(syncLinks)
  /\ syncPc \in {"start", "scanned", "mapped", "fetched", "partitioned"}
       => stCalls = 0 /\ fsWrites = 0

\* a run without --dry-run has ended with new and updated records
C19_Witness ==
  /\ ~optDryRun
  /\ syncPc = "done"
  /\ newLinks # <<>>
  /\ updatedLinks # <<>>

\* C20: once getLinks or upsertLinks has thrown, the command has ended with
\* status 1, it called each of them at most once, and after a failed listing it
\* made no upsertLinks call and no write
C20_PersistenceFailureIsFatal ==
  failedOp # "" =>
    /\ syncPc = "failed"
    /\ exitCode = 1
    /\ getLinksCalls = 1
    /\ stCalls <= 1
    /\ failedOp = "getLinks" => (stCalls = 0 /\ fsWrites = 0 /\ fsDone = <<>> /\ ~sbFailed)
    /\ failedOp = "upsertLinks" => stCalls = 1

\* the listing of the remote store has failed with records to sync
C20_Witness ==
  /\ failedOp = "getLinks"
  /\ adapter = "supabase"
  /\ syncLinks # <<>>
  /\ sbTable # <<>>

\* the records the store of the configured adapter holds
StoreRecords == IF adapter = "json" THEN FsGetLinks ELSE sbTable

\* every run so far has ended with its report, and the last is not the first
RanAgain == syncPc = "done" /\ Len(syncReport) >= 2

\* a run after the first one has ended: it reported no new link, and the store
\* holds the records its listing returned, which are those the run before left
C24_SecondSyncChangesNothing ==
  RanAgain => /\ syncReport[Len(syncReport)].newLinks = 0
              /\ StoreRecords = existingLinks

\* no external link of the corpus gets a slug made of Date.now()
NoClockSlugInCorpus ==
  \A i \in 1..Len(resultExternalLinks) : ~UsesClock(resultExternalLinks[i], plugins)

\* C24, amended: a run of the command without --dry-run that follows another on
\* the same corpus, configuration and store reports no new link and leaves the
\* store with the records the run before left, provided no external link of the
\* corpus gets a slug made of Date.now()
C24_SecondSyncChangesNothingNoClock ==
  (RanAgain /\ NoClockSlugInCorpus)
    => /\ syncReport[Len(syncReport)].newLinks = 0
       /\ syncReport[Len(syncReport)].updatedLinks = syncReport[Len(syncReport)].totalLinks
       /\ StoreRecords = existingLinks

\* two runs have ended, the first added records to a store that held one and
\* the second found them all
C24_Witness ==
  /\ RanAgain
  /\ NoClockSlugInCorpus
  /\ syncReport[1].newLinks > 0
  /\ syncReport[1].updatedLinks > 0
  /\ syncReport[2].updatedLinks = syncReport[1].totalLinks
  /\ Len(StoreRecords) > syncReport[1].totalLinks

(***************************************************************************)
(* Further properties of transformFile and transformFiles                  *)
(***************************************************************************)

\* the occurrences transformFile was given that pass its filter
QualifyingLinks == {j \in 1..Len(tfLinks) : startsWith(tfLinks[j].url, "http")}

\* C21: a result transformFiles returns has linksTransformed equal to the length
\* of its changes; the result of the file is returned if and only if
\* transformFile made at least one change; and a file given no qualifying link
\* has no change and no result
C21_ResultsHaveChanges ==
  tfPc \in {"returned", "applied"}
    => /\ \A i \in 1..Len(tfResults) :
            /\ tfResults[i].linksTransformed = Len(tfResults[i].changes)
            /\ tfResults[i].changes = changes
       /\ (tfResults # <<>>) <=> (Len(changes) > 0)
       /\ QualifyingLinks = {} => (Len(changes) = 0 /\ tfResults = <<>>)

\* transformFile returned for a file with links none of which qualifies, and
\* transformFiles returned no result
C21_Witness ==
  /\ tfPc = "returned"
  /\ tfLinks # <<>>
  /\ QualifyingLinks = {}
  /\ Len(changes) = 0
  /\ tfResults = <<>>

\* C23: two entries of the changes of one result that have different original
\* URLs have different slugs and different tracking URLs
C23_DistinctSlugsPerResult ==
  tfPc \in {"returned", "applied"}
    => \A i, j \in 1..Len(changes) :
         changes[i].original # changes[j].original
           => /\ changes[i].slug # changes[j].slug
              /\ changes[i].trackingUrl # changes[j].trackingUrl

(***************************************************************************)
(* AmazonPlugin.convert, called on one URL with one tag, with the          *)
(* cleanParams option unset, true or false                                 *)
(***************************************************************************)

\* how many calls of convert are made
MaxConvertCalls == 2

\* the README's example of a conversion
ReadmeUrl ==
  "http://www.amazon.com/gp/product/B000A6PPOK/ref=as_li_ss_tl?ie=UTF8&camp=1789&creative=390957&creativeASIN=B000A6PPOK&linkCode=as2&tag=donkitchencom-20"

\* the same example with fewer parameters
ExampleUrl ==
  "https://www.amazon.com/gp/product/B000A6PPOK/ref=as_li_ss_tl?camp=1789&creative=390957&tag=donkitchencom-20"

\* the URLs convert is called with
ConvertUrls ==
  {ReadmeUrl,
   ExampleUrl,
   "https://www.amazon.com/dp/B000A6PPOK",
   "https://amazon.co.uk/dp/B000A6PPOK?tag=old-21",
   "https://www.amazon.de/Kettle/dp/B000A6PPOK/ref=sr_1_1?k=v",
   "https://smile.amazon.com/dp/b000a6ppok",
   "https://www.amazon.com.au/gp/product/B000A6PPOK",
   "http://www.amazon.com/dp/B000A6PPOKXYZ#top",
   "https://www.amazon.com/s?k=kettle&tag=old-20",
   "https://www.amazon.com/dp/B000A6PPOK?via=amzn.to",
   "https://amzn.to/3x",
   "https://a.co/dp/B000A6PPOK",
   "amazon.com/dp/B000A6PPOK"}

\* the tags of the options, "" for none
ConvertTags == {"", "t-20", "donkitchencom-20"}

CleanParamsOptions == {"unset", "true", "false"}

InitAmazon ==
  /\ plugins = {"amazon"}
  /\ config \in {c \in Configs : c.amazonEnabled}
  /\ cvUrl \in ConvertUrls
  /\ cvTag \in ConvertTags
  /\ cvCalls = <<>>
  /\ rpLinks = <<>>
  /\ rpMap = <<>>
  /\ reportLinks = <<>>
  /\ LmIdle
  /\ TfIdle
  /\ StIdle
  /\ CliIdle

\* plugin.convert(cvUrl, {tag: cvTag, cleanParams}); const {tag, cleanParams = true} = options
ConvertCall ==
  /\ Len(cvCalls) < MaxConvertCalls
  /\ \E option \in CleanParamsOptions :
       cvCalls' = Append(cvCalls,
                         [cleanParams |-> option,
                          result |-> AmazonPlugin_convert(cvUrl, cvTag, option # "false")])
  /\ UNCHANGED <<cvUrl, cvTag, rpLinks, rpMap, reportLinks,
                 cfgVars, lmVars, tfVars, stVars, cliVars>>

NextAmazon == ConvertCall

SpecAmazon == InitAmazon /\ [][NextAmazon]_vars

(***************************************************************************)
(* Properties of AmazonPlugin.convert                                      *)
(***************************************************************************)

\* the domain of AMAZON_DOMAINS that the host of the URL is, or is a subdomain of,
\* its 'www.' set aside
AmazonDomainOf(url) ==
  LET Of(host) ==
        CHOOSE d \in {AMAZON_DOMAINS[k] : k \in 1..Len(AMAZON_DOMAINS)} :
          host = d \/ endsWith(host, "." \o d)
  IN  Of(ReplaceFirst(toLowerCase(ParseURL(url).hostname), "www.", ""))

\* C22: for a URL the plugin detects as Amazon's and extracts a product id from,
\* convert returns 'https://www.<the Amazon domain of the URL>/dp/<id>', followed by
\* '?tag=<tag>' if the options have a tag, and nothing else; the example of the
\* README, in both forms, is converted as the README says
C22_CleanProductUrl ==
  \A i \in 1..Len(cvCalls) :
    /\ (AmazonPlugin_detect(cvUrl) /\ extractProductId(cvUrl) # "")
         => /\ Len(extractProductId(cvUrl)) = AsinLen
            /\ cvCalls[i].result
                 = "https://www." \o AmazonDomainOf(cvUrl) \o "/dp/" \o extractProductId(cvUrl)
                   \o (IF cvTag # "" THEN "?tag=" \o cvTag ELSE "")
    /\ (cvUrl \in {ReadmeUrl, ExampleUrl} /\ cvTag = "donkitchencom-20")
         => cvCalls[i].result = "https://www.amazon.com/dp/B000A6PPOK?tag=donkitchencom-20"

\* convert was called on the example of the README with the tag of the example
C22_Witness ==
  /\ cvUrl = ExampleUrl
  /\ cvTag = "donkitchencom-20"
  /\ cvCalls # <<>>
  /\ AmazonPlugin_detect(cvUrl)
  /\ extractProductId(cvUrl) = "B000A6PPOK"

Reporter_generateSlug(link, pl, now) ==
  IF link.network # "" /\ link.network \in pl
  THEN AmazonPlugin_generateSlug(link.url, link.text, now)
  ELSE IF link.text # "" /\ link.text # link.url
  THEN StripTrailingDashes(SliceTo(slugify(link.text), MaxSlugLen))
  ELSE LET Fallback(url) ==
             IF ~url.ok THEN "link-" \o toString36(now)
             ELSE SliceTo(slugify(HostLabel(url.hostname) \o "-"
                                  \o FirstPathSegment(url.pathname)),
                          MaxSlugLen)
       IN  Fallback(URLTable[link.url])

reporterSlugTable ==
  [k \in 1..Len(LinkCatalogue), pl \in PluginSets, now \in Clock |->
     Reporter_generateSlug(
       ExtractedLink(LinkCatalogue[k][1], LinkCatalogue[k][2], "a.md", 1, 1), pl, now)]

\* ReporterWhile with `${baseSlug}-${counter++}` for the numeric suffix
RECURSIVE ReporterWhileCounterAfter(_, _, _, _, _)
ReporterWhileCounterAfter(baseSlug, slug, counter, linkUrl, used) ==
  IF slug \notin used THEN slug
  ELSE LET Next(ok, domainSlug) ==
             IF ok /\ domainSlug \notin used THEN domainSlug
             ELSE ReporterWhileCounterAfter(baseSlug, baseSlug \o "-" \o ToDecimal(counter),
                                            counter + 1, linkUrl, used)
           Of(url) == Next(url.ok, baseSlug \o "-" \o HostLabel(url.hostname))
       IN  Of(URLTable[linkUrl])

\* the while loop of toAffiliateLinks, entered with slug and counter: the slug it
\* leaves with
RECURSIVE ReporterWhile(_, _, _, _, _)
ReporterWhile(baseSlug, slug, counter, linkUrl, used) ==
  IF slug \notin used THEN slug
  ELSE LET Next(ok, domainSlug) ==
             IF ok /\ domainSlug \notin used THEN domainSlug
             ELSE ReporterWhile(baseSlug, baseSlug \o "-" \o ToDecimal(counter + 1),
                                counter + 1, linkUrl, used)
           Of(url) == Next(url.ok, baseSlug \o "-" \o HostLabel(url.hostname))
       IN  Of(URLTable[linkUrl])

\* finalUrl of toAffiliateLinks
Reporter_finalUrl(link, pl, cfg, cleanParams) ==
  IF link.network = "" THEN link.url
  ELSE IF link.network \in pl /\ cfg.amazonEnabled
  THEN AmazonPlugin_convert(link.url, cfg.amazonTag, cleanParams)
  ELSE link.url

reporterUrlTable ==
  [k \in 1..Len(LinkCatalogue), pl \in PluginSets, cfg \in Configs, cleanParams \in BOOLEAN |->
     Reporter_finalUrl(ExtractedLink(LinkCatalogue[k][1], LinkCatalogue[k][2], "a.md", 1, 1),
                       pl, cfg, cleanParams)]

\* one iteration of the for loop of toAffiliateLinks over `link`
ReporterIteration(byUrl, used, link, pl, cfg, cleanParams, now) ==
  IF ~startsWith(link.url, "http") THEN [byUrl |-> byUrl, usedSlugs |-> used]
  ELSE IF \E i \in 1..Len(byUrl) : byUrl[i].key = link.url
  THEN [byUrl |-> byUrl, usedSlugs |-> used]
  ELSE LET Set(slug) ==
             [byUrl |-> Append(byUrl,
                               [key   |-> link.url,
                                value |-> [slug         |-> slug,
                                           name         |-> IF link.text = "" THEN link.url
                                                            ELSE link.text,
                                           url          |-> reporterUrlTable[CatalogueIndex(link),
                                                                             pl, cfg, cleanParams],
                                           is_affiliate |-> link.isAffiliate,
                                           network      |-> link.network]]),
              usedSlugs |-> used \cup {slug}]
           Unique(baseSlug) == Set(ReporterWhile(baseSlug, baseSlug, 1, link.url, used))
       IN  Unique(reporterSlugTable[CatalogueIndex(link), pl, now])

RECURSIVE ReporterLoop(_, _, _, _, _, _, _)
ReporterLoop(byUrl, used, links, pl, cfg, cleanParams, nows) ==
  IF links = <<>> THEN byUrl
  ELSE LET Continue(it) ==
             ReporterLoop(it.byUrl, it.usedSlugs, Tail(links), pl, cfg, cleanParams, Tail(nows))
       IN  Continue(ReporterIteration(byUrl, used, Head(links), pl, cfg, cleanParams,
                                      Head(nows)))

\* toAffiliateLinks(links): Array.from(byUrl.values())
toAffiliateLinks(links, pl, cfg, cleanParams, nows) ==
  LET Values(byUrl) == [i \in 1..Len(byUrl) |-> byUrl[i].value]
  IN  Values(ReporterLoop(<<>>, {}, links, pl, cfg, cleanParams, nows))

\* the longest list the two functions are given
MaxReportLinks == 2

\* what Date.now() returns in the iterations over `links`: one reading for each
\* iteration whose generateSlug reads the clock (the others are given the least one)
ClockReadings(links, pl) ==
  {nows \in [1..Len(links) -> Clock] :
     \A i \in 1..Len(links) :
       (~startsWith(links[i].url, "http") \/ ~UsesClock(links[i], pl)) => nows[i] = SetMin(Clock)}

InitReport ==
  /\ plugins \in PluginSets
  /\ config \in Configs
  /\ rpLinks \in {LinksOf(pick) : pick \in SeqsUpTo(Len(CatalogueLinks), MaxReportLinks)}
  /\ rpMap = <<>>
  /\ reportLinks = <<>>
  /\ cvUrl = ""
  /\ cvTag = ""
  /\ cvCalls = <<>>
  /\ LmIdle
  /\ TfIdle
  /\ StIdle
  /\ CliIdle

\* transformer.generateLinkMap(rpLinks); the clock reads nows[i] in iteration i
RpGenerateLinkMap ==
  /\ rpMap = <<>>
  /\ \E nows \in ClockReadings(rpLinks, plugins) :
       rpMap' = <<generateLinkMap(rpLinks, plugins, config, nows)>>
  /\ UNCHANGED <<rpLinks, reportLinks, cvUrl, cvTag, cvCalls,
                 cfgVars, lmVars, tfVars, stVars, cliVars>>

\* reporter.toAffiliateLinks(rpLinks); the clock reads nows[i] in iteration i
RpToAffiliateLinks ==
  /\ reportLinks = <<>>
  /\ \E nows \in ClockReadings(rpLinks, plugins), cleanParams \in BOOLEAN :
       reportLinks' = <<toAffiliateLinks(rpLinks, plugins, config, cleanParams, nows)>>
  /\ UNCHANGED <<rpLinks, rpMap, cvUrl, cvTag, cvCalls,
                 cfgVars, lmVars, tfVars, stVars, cliVars>>

NextReport == RpGenerateLinkMap \/ RpToAffiliateLinks

SpecReport == InitReport /\ [][NextReport]_vars

(***************************************************************************)
(* Properties of the Reporter                                              *)
(***************************************************************************)

\* both functions have returned
BothReturned == rpMap # <<>> /\ reportLinks # <<>>

\* C29: the records toAffiliateLinks returns are the values of the Map
\* generateLinkMap returns, in the same order
C29_ReportEqualsLinkMap ==
  BothReturned => reportLinks[1] = ValuesOf(rpMap[1])

\* no occurrence of the list that the functions do not skip takes a base slug
\* made of Date.now()
NoClockSlug ==
  \A i \in 1..Len(rpLinks) :
    startsWith(rpLinks[i].url, "http") => ~UsesClock(rpLinks[i], plugins)

\* C29, amended: the records are the same if no base slug is made of the clock,
\* and whenever the clock reads the same in the iterations of the two functions
C29_ReportEqualsLinkMapSameClock ==
  /\ (BothReturned /\ NoClockSlug) => reportLinks[1] = ValuesOf(rpMap[1])
  /\ (rpMap = <<>> /\ reportLinks = <<>>)
       => \A nows \in ClockReadings(rpLinks, plugins), cleanParams \in BOOLEAN :
            toAffiliateLinks(rpLinks, plugins, config, cleanParams, nows)
              = ValuesOf(generateLinkMap(rpLinks, plugins, config, nows))

\* both have returned, for a list without a clock-based slug in which a numeric
\* suffix resolved a collision
C29_Witness ==
  /\ BothReturned
  /\ NoClockSlug
  /\ Len(reportLinks[1]) = 2
  /\ reportLinks[1][1].slug = "buy"
  /\ reportLinks[1][2].slug = "buy-2"
  /\ rpMap[1][2].slug = "buy-2"

====
